---- MODULE Spec2Model ----
(***************************************************************************)
(* Foam-Agent: the orchestration state machine (LangGraph nodes and        *)
(* routers), the file rewrite of the repair step, the local run service,   *)
(* the GMSH mesh synthesis loop, the retrieval of the reference case, the  *)
(* review step, the SLURM runner and the retry of the completion service.  *)
(***************************************************************************)
EXTENDS Integers, Sequences, FiniteSets, TLC

\* ------------------------------------------------------------------------
\* Bounds of the exploration
\* ------------------------------------------------------------------------
MaxLoopCeil == 3
MaxRewriteLen == 2
MaxMeshLoop == 3
MaxFailedChecks == 2
MaxCandidates == 3
MaxScore == 1
MaxAttempts == 2
MaxRetries == 10

\* ------------------------------------------------------------------------
\* Values
\* ------------------------------------------------------------------------
None == "None"
NoFile == "NoFile"
NoLog == <<"NoLog">>

Contents == {"v1", "v2"}
InitialContent == "v1"

\* a (folder_name, file_name) pair as the planner / the rewrite response names it
FoamKey(folder, file) == [folder_name |-> folder, file_name |-> file]

ControlDict == FoamKey("system", "controlDict")
FieldU == FoamKey("0", "U")
TransportProperties == FoamKey("constant", "transportProperties")
FvSchemes == FoamKey("system", "fvSchemes")
AllrunEntry == FoamKey("./", "Allrun")
AllrunDot == FoamKey(".", "Allrun")
\* the boundary file gmshToFoam leaves in constant/polyMesh
PolyMeshBoundary == FoamKey("constant/polyMesh", "boundary")

FolderNames == {"system", "constant", "0", "./", ".", "constant/polyMesh"}

\* os.path.join(case_dir, folder_name, file_name): "./" and "." both name the
\* case directory itself, so two different pairs can name one file on disk.
NormFolder(folder) == IF folder \in {"./", "."} THEN "." ELSE folder
PathOf(key) == <<NormFolder(key.folder_name), key.file_name>>

Paths == {PathOf(ControlDict), PathOf(FvSchemes), PathOf(FieldU),
          PathOf(TransportProperties), PathOf(AllrunEntry),
          PathOf(PolyMeshBoundary)}

FoamFile(key, content) ==
    [folder_name |-> key.folder_name, file_name |-> key.file_name, content |-> content]
KeyOf(f) == FoamKey(f.folder_name, f.file_name)

EmptyDisk == [p \in Paths |-> NoFile]
EmptyDirStructure == [d \in FolderNames |-> <<>>]

\* ------------------------------------------------------------------------
\* Sequence helpers
\* ------------------------------------------------------------------------
Range(s) == {s[i] : i \in 1..Len(s)}
SeqsUpTo(S, n) == UNION {[1..k -> S] : k \in 0..n}
IsPrefix(s, t) == Len(s) <= Len(t) /\ SubSeq(t, 1, Len(s)) = s

RECURSIVE FilterSeq(_, _)
FilterSeq(s, keep) ==
    IF s = <<>> THEN <<>>
    ELSE IF Head(s) \in keep THEN <<Head(s)>> \o FilterSeq(Tail(s), keep)
         ELSE FilterSeq(Tail(s), keep)

\* ------------------------------------------------------------------------
\* Log files of a run and their parsing (utils.check_foam_errors)
\* ------------------------------------------------------------------------
\* A log is a sequence of lines.  "ERROR: nu" stands for a line holding the
\* explicit marker, "End" for the completion line, "text" for any other line.
ErrorLine == "ERROR: nu"
EndLine == "End"
TextLine == "text"
LogNames == {"log.blockMesh", "log.simpleFoam"}
\* the order in which os.listdir hands the log files over
LogOrder == <<"log.blockMesh", "log.simpleFoam">>

NoLogs == [n \in LogNames |-> NoLog]

\* re.compile(r"ERROR:(.*)", re.DOTALL).search(content)
HasErrorMarker(content) == \E i \in 1..Len(content) : content[i] = ErrorLine
FirstError(content) ==
    CHOOSE i \in 1..Len(content) :
        content[i] = ErrorLine /\ \A j \in 1..(i - 1) : content[j] # ErrorLine
\* the match without re.DOTALL: the marker's line alone
ErrorMatchLineOnly(content) == <<content[FirstError(content)]>>
\* match.group(0): from the first marker to the end of the file
ErrorMatch(content) == SubSeq(content, FirstError(content), Len(content))

\* re.compile(r"^\s*End\s*$", re.MULTILINE).search(content)
HasEndMarker(content) == \E i \in 1..Len(content) : content[i] = EndLine

TailLines == 30
LastLines(content) ==
    IF Len(content) <= TailLines THEN content
    ELSE SubSeq(content, Len(content) - TailLines + 1, Len(content))

ErrorRecord(file, kind, text) == [file |-> file, kind |-> kind, error_content |-> text]

\* a log that open() or read() fails on with IOError / OSError
Unreadable == <<"Unreadable">>
\* the logs that reach log_contents
Readable(content) == content # NoLog /\ content # Unreadable

\* first loop of check_foam_errors: one record per log that cannot be read
\* and one per log that holds the marker
RECURSIVE ExplicitErrors(_, _)
ExplicitErrors(logfiles, order) ==
    IF order = <<>> THEN <<>>
    ELSE LET file == Head(order)
             rest == ExplicitErrors(logfiles, Tail(order))
         IN IF logfiles[file] = Unreadable
            THEN <<ErrorRecord(file, "Unreadable", <<>>)>> \o rest
            ELSE IF logfiles[file] # NoLog /\ HasErrorMarker(logfiles[file])
            THEN <<ErrorRecord(file, "ERROR", ErrorMatch(logfiles[file]))>> \o rest
            ELSE rest

\* safety net of check_foam_errors: one record per log without the End line
RECURSIVE MissingEndErrors(_, _)
MissingEndErrors(logfiles, order) ==
    IF order = <<>> THEN <<>>
    ELSE LET file == Head(order)
             rest == MissingEndErrors(logfiles, Tail(order))
         IN IF Readable(logfiles[file]) /\ ~HasEndMarker(logfiles[file])
            THEN <<ErrorRecord(file, "NoEnd", LastLines(logfiles[file]))>> \o rest
            ELSE rest

check_foam_errors(logfiles) ==
    LET explicit == ExplicitErrors(logfiles, LogOrder)
    IN IF explicit # <<>> THEN explicit
       ELSE MissingEndErrors(logfiles, LogOrder)

\* the logs a run of the pipeline may leave behind
OkLog == <<TextLine, EndLine>>
FailedLog == <<TextLine, ErrorLine, TextLine>>
CrashedLog == <<TextLine>>
\* two markers in one log
FailedTwiceLog == <<TextLine, ErrorLine, TextLine, ErrorLine>>
\* a log longer than the tail that is reported, without the End line
LongCrashedLog == [i \in 1..(TailLines + 1) |-> IF i = 1 THEN "Create time" ELSE TextLine]
\* blockMesh then the solver: all fine, the solver fails loudly, the solver dies
\* silently, blockMesh fails and nothing follows, or no log is written at all
RunOutcomes ==
    { [NoLogs EXCEPT !["log.blockMesh"] = OkLog, !["log.simpleFoam"] = OkLog],
      [NoLogs EXCEPT !["log.blockMesh"] = OkLog, !["log.simpleFoam"] = FailedLog],
      [NoLogs EXCEPT !["log.blockMesh"] = OkLog, !["log.simpleFoam"] = CrashedLog],
      [NoLogs EXCEPT !["log.blockMesh"] = FailedLog],
      NoLogs }

\* ------------------------------------------------------------------------
\* The rewrite of the repair step
\* (input_writer_node._rewrite_mode, services.input_writer.rewrite_files)
\* ------------------------------------------------------------------------
CaseState(dir, files, dsk) == [dir_structure |-> dir, foamfiles |-> files, disk |-> dsk]

SameName(f, g) == f.folder_name = g.folder_name /\ f.file_name = g.file_name

RECURSIVE DropNamed(_, _)
DropNamed(files, f) ==
    IF files = <<>> THEN <<>>
    ELSE IF SameName(Head(files), f) THEN DropNamed(Tail(files), f)
         ELSE <<Head(files)>> \o DropNamed(Tail(files), f)

\* the body that starts the list of the folder afresh for every named file
RewriteOneResetFolder(cs, f) ==
    CaseState(
        [cs.dir_structure EXCEPT ![f.folder_name] = <<f.file_name>>],
        Append(DropNamed(cs.foamfiles, f), f),
        [cs.disk EXCEPT ![PathOf(KeyOf(f))] = f.content])

RewriteOneLoseFolder(cs, f) ==
    CaseState(
        [cs.dir_structure EXCEPT ![f.folder_name] = <<f.file_name>>],
        Append(DropNamed(cs.foamfiles, f), f),
        [p \in Paths |-> IF p = PathOf(KeyOf(f)) THEN f.content
                         ELSE IF p[1] = PathOf(KeyOf(f))[1] THEN NoFile
                         ELSE cs.disk[p]])

\* the body of "for foamfile in response.list_foamfile"
RewriteOne(cs, f) ==
    CaseState(
        IF f.file_name \in Range(cs.dir_structure[f.folder_name])
        THEN cs.dir_structure
        ELSE [cs.dir_structure EXCEPT ![f.folder_name] = Append(@, f.file_name)],
        Append(DropNamed(cs.foamfiles, f), f),
        [cs.disk EXCEPT ![PathOf(KeyOf(f))] = f.content])

RECURSIVE ApplyRewrite(_, _)
ApplyRewrite(cs, response) ==
    IF response = <<>> THEN cs
    ELSE ApplyRewrite(RewriteOne(cs, Head(response)), Tail(response))

\* what the model may answer: files to modify and files to add
RewriteEntries ==
    { FoamFile(ControlDict, "v1"), FoamFile(ControlDict, "v2"),
      FoamFile(TransportProperties, "v2"), FoamFile(AllrunDot, "v2") }
RewriteResponses == SeqsUpTo(RewriteEntries, MaxRewriteLen)
NamedPaths(response) == {PathOf(KeyOf(response[i])) : i \in 1..Len(response)}

\* ------------------------------------------------------------------------
\* The initial write (input_writer_node._initial_write_mode)
\* ------------------------------------------------------------------------
\* a key that gives every folder the same priority
compute_priority_Flat(subtask) == 0
compute_priority(subtask) ==
    IF subtask.folder_name = "system" THEN 0
    ELSE IF subtask.folder_name = "constant" THEN 1
    ELSE IF subtask.folder_name = "0" THEN 2
    ELSE 3

\* sorted(subtasks, key=compute_priority): stable
RECURSIVE InsertByPriority(_, _)
InsertByPriority(sorted, t) ==
    IF sorted = <<>> THEN <<t>>
    ELSE IF compute_priority(Head(sorted)) <= compute_priority(t)
         THEN <<Head(sorted)>> \o InsertByPriority(Tail(sorted), t)
         ELSE <<t>> \o sorted

RECURSIVE SortByPriority(_)
SortByPriority(tasks) ==
    IF tasks = <<>> THEN <<>>
    ELSE InsertByPriority(SortByPriority(SubSeq(tasks, 1, Len(tasks) - 1)), tasks[Len(tasks)])

\* the body of "for subtask in subtasks"
WriteOne(cs, t) ==
    CaseState(
        [cs.dir_structure EXCEPT ![t.folder_name] = Append(@, t.file_name)],
        Append(cs.foamfiles, FoamFile(t, InitialContent)),
        [cs.disk EXCEPT ![PathOf(t)] = InitialContent])

RECURSIVE WriteAll(_, _)
WriteAll(cs, tasks) ==
    IF tasks = <<>> THEN cs
    ELSE WriteAll(WriteOne(cs, Head(tasks)), Tail(tasks))

\* subtasks written in priority order, then the Allrun script
InitialWrite(dsk, tasks) ==
    LET written == WriteAll(CaseState(EmptyDirStructure, <<>>, dsk), SortByPriority(tasks))
    IN CaseState(
        written.dir_structure,
        Append(written.foamfiles, FoamFile(AllrunEntry, InitialContent)),
        [written.disk EXCEPT ![PathOf(AllrunEntry)] = InitialContent])

\* what the architect's decomposition may return
PlanOutputs ==
    { <<FieldU, FvSchemes, ControlDict>>,
      <<ControlDict, TransportProperties, FieldU>> }

\* ------------------------------------------------------------------------
\* State
\* ------------------------------------------------------------------------
VARIABLES
    pc,                 \* the node or router of the graph that runs next
    max_loop,           \* config.max_loop
    loop_count,         \* state["loop_count"]
    error_logs,         \* state["error_logs"]
    history_text,       \* state["history_text"]
    review_analysis,    \* state["review_analysis"]
    input_writer_mode,  \* state["input_writer_mode"]
    subtasks,           \* state["subtasks"]
    mesh_type,          \* state["mesh_type"]
    mesh_info,          \* state["mesh_info"]
    job_id,             \* state["job_id"]
    dir_structure,      \* state["dir_structure"]
    foamfiles,          \* state["foamfiles"].list_foamfile
    disk,               \* the files of the case directory
    logs,               \* the log* files of the case directory
    report              \* what main() prints when the graph returns

pipeVars == <<pc, max_loop, loop_count, error_logs, history_text, review_analysis,
              input_writer_mode, subtasks, mesh_type, mesh_info, job_id,
              dir_structure, foamfiles, disk, logs, report>>

\* One run request served by services.run_local or by the MCP tool "run"
VARIABLES
    run_impl,           \* "run_simulation_local" or "mcp_run"
    run_stage,          \* "request", "returned" or "raised"
    run_dir,            \* the case directory exists
    run_allrun,         \* the case directory holds an Allrun script
    run_logs,           \* the log* files of that directory
    run_errors,         \* what run_allrun_and_collect_errors returned
    run_response,       \* RunSimulationResponse.errors (MCP only)
    run_status,         \* RunOut.status / RunSimulationResponse.status
    run_out_file,       \* the content of Allrun.out
    run_err_file,       \* the content of Allrun.err
    run_timed_out,      \* communicate() of the last run raised TimeoutExpired
    run_procs,          \* the processes of the script's group: killed / still alive
    run_written         \* the log files the script of this call has written

runVars == <<run_impl, run_stage, run_dir, run_allrun, run_logs, run_errors,
             run_response, run_status, run_out_file, run_err_file, run_timed_out,
             run_procs, run_written>>

\* One repair request served by input_writer_node._rewrite_mode or by
\* services.input_writer.rewrite_files
VARIABLES
    rw_impl,            \* "_rewrite_mode" or "rewrite_files"
    rw_stage,           \* "request", "returned" or "raised"
    rw_case,            \* dir_structure, foamfiles and the files on disk
    rw_response         \* the rewrite response of the last repair iteration

rewriteVars == <<rw_impl, rw_stage, rw_case, rw_response>>

\* One call of handle_gmsh_mesh (nodes/meshing_node.py or services/mesh.py)
VARIABLES
    mesh_impl,                  \* "node" or "service"
    mesh_pc,                    \* the step of the mesh loop that runs next
    mesh_max_loop,              \* max_loop
    gmsh_python_current_loop,   \* gmsh_python_current_loop
    corrected_python_code,      \* corrected_python_code is not None
    geometry_type,              \* "generated" or "corrected" code was run last
    boundary_keys,              \* 'found_boundaries' is a key of the node's state
    expected_boundaries,        \* expected_boundaries
    found_boundaries,           \* found_boundaries of the last boundary check
    checkmesh_output,           \* what the last checkMesh run printed
    gmsh_result,                \* the returned mesh_info
    stderr_output,              \* stderr of the last run of the geometry script
    correction_prompt           \* what the last step put into a correction prompt

meshVars == <<mesh_impl, mesh_pc, mesh_max_loop, gmsh_python_current_loop,
              corrected_python_code, geometry_type, boundary_keys,
              expected_boundaries, found_boundaries, checkmesh_output, gmsh_result,
              stderr_output, correction_prompt>>

\* One retrieval of a reference case (services/plan.py or nodes/architect_node.py)
VARIABLES
    rt_impl,            \* "plan" or "node"
    rt_stage,           \* "idle", "request", "returned" or "raised"
    rt_case_domain,     \* the domain of the case descriptor
    rt_case_solver,     \* the solver of the case descriptor
    rt_candidates,      \* what retrieve_faiss answered for the structure index
    rt_selected,        \* <<>> or <<the candidate taken as the reference>>
    rt_result           \* the reference texts handed to the caller

retrieveVars == <<rt_impl, rt_stage, rt_case_domain, rt_case_solver, rt_candidates,
                  rt_selected, rt_result>>

\* One review of a failed run (nodes/reviewer_node.py or services/review.py)
VARIABLES
    rv_impl,                \* "reviewer_node" or "review_error_logs"
    rv_stage,               \* "idle", "request" or "returned"
    rv_case,                \* the case: dir_structure, foamfiles, disk
    rv_error_logs,          \* the error list under review
    rv_history_text,        \* the review transcript
    rv_review_analysis,     \* the analysis text
    rv_loop_count,          \* the caller's loop_count
    rv_input_writer_mode    \* the caller's input_writer_mode

reviewVars == <<rv_impl, rv_stage, rv_case, rv_error_logs, rv_history_text,
                rv_review_analysis, rv_loop_count, rv_input_writer_mode>>

\* One call of the SLURM runner (nodes/hpc_runner_node.py) or of the polling
\* helper of the service layer (services/run_hpc.wait_for_job)
VARIABLES
    hpc_impl,               \* "hpc_runner_node" or "wait_for_job"
    hpc_pc,                 \* "idle", "entry", "submit", "poll", "parse", "returned"
    hpc_max_loop,           \* config.max_loop
    hpc_current_attempt,        \* submissions made so far
    last_error_msg,         \* error message of the last failed submission
    slurm_prompt,           \* context the prompt of the current script carried
    elapsed_time,           \* seconds slept between status checks
    status_checks,          \* calls of check_job_status made so far
    hpc_status,             \* status of the last check
    hpc_logs,               \* log files of the case directory
    hpc_error_logs,         \* error_logs of the state / of the returned state
    hpc_job_id              \* job_id of the returned state

hpcVars == <<hpc_impl, hpc_pc, hpc_max_loop, hpc_current_attempt, last_error_msg,
             slurm_prompt, elapsed_time, status_checks, hpc_status, hpc_logs,
             hpc_error_logs, hpc_job_id>>

\* One call of LLMService.invoke (utils.py)
VARIABLES
    llm_pc,                 \* "idle", "calling", "returned", "raised", "raised_other"
    llm_max_retries,        \* the max_retries argument
    llm_retry_count,        \* retry_count of invoke
    llm_requests,           \* requests sent to the provider
    llm_delay               \* delay of the last backoff, without the jitter

llmVars == <<llm_pc, llm_max_retries, llm_retry_count, llm_requests, llm_delay>>

nonPipeVars == <<runVars, rewriteVars, meshVars, retrieveVars, reviewVars, hpcVars, llmVars>>
nonRunVars == <<pipeVars, rewriteVars, meshVars, retrieveVars, reviewVars, hpcVars, llmVars>>
nonRewriteVars == <<pipeVars, runVars, meshVars, retrieveVars, reviewVars, hpcVars, llmVars>>
nonMeshVars == <<pipeVars, runVars, rewriteVars, retrieveVars, reviewVars, hpcVars, llmVars>>
nonRetrieveVars == <<pipeVars, runVars, rewriteVars, meshVars, reviewVars, hpcVars, llmVars>>
nonReviewVars == <<pipeVars, runVars, rewriteVars, meshVars, retrieveVars, hpcVars, llmVars>>
nonHpcVars == <<pipeVars, runVars, rewriteVars, meshVars, retrieveVars, reviewVars, llmVars>>
nonLlmVars == <<pipeVars, runVars, rewriteVars, meshVars, retrieveVars, reviewVars, hpcVars>>

vars == <<pipeVars, runVars, rewriteVars, meshVars, retrieveVars, reviewVars,
          hpcVars, llmVars>>

Analyses == {"", "fix the dictionary"}
PipelineResponses ==
    { <<>>,
      <<FoamFile(ControlDict, "v2")>>,
      <<FoamFile(AllrunDot, "v2")>>,
      <<FoamFile(PolyMeshBoundary, "v2")>> }

SubmitError == ErrorRecord("", "Submit", <<>>)
StatusError == ErrorRecord("", "Status", <<>>)
MeshError == ErrorRecord("", "Mesh", <<>>)
AllrunMissing == ErrorRecord("", "NoAllrun", <<>>)

\* main.initialize_state
PipelineInit ==
    /\ pc = "architect"
    /\ max_loop \in 1..MaxLoopCeil
    /\ loop_count = 0
    /\ error_logs = <<>>
    /\ history_text = <<>>
    /\ review_analysis = ""
    /\ input_writer_mode = "initial"
    /\ subtasks = <<>>
    /\ mesh_type = None
    /\ mesh_info = None
    /\ job_id = None
    /\ dir_structure = EmptyDirStructure
    /\ foamfiles = <<>>
    /\ disk = EmptyDisk
    /\ logs = NoLogs
    /\ report = ""

\* ------------------------------------------------------------------------
\* Routers (router_func.py)
\* ------------------------------------------------------------------------
\* architect_node: llm_requires_custom_mesh returns a bool, compared with 1 and 2
MeshTypeValue(requires) ==
    LET mt == IF requires THEN 1 ELSE 0
    IN IF mt = 1 THEN "custom_mesh"
       ELSE IF mt = 2 THEN "gmsh_mesh"
       ELSE "standard_mesh"

route_after_architect(requires_custom_mesh) ==
    IF requires_custom_mesh THEN "meshing" ELSE "input_writer"

route_after_input_writer(requires_hpc) ==
    IF requires_hpc THEN "hpc_runner" ELSE "local_runner"

route_after_runner_AlwaysReview(errs, requires_visualization) == "reviewer"

route_after_runner_MoreThanOne(errs, requires_visualization) ==
    IF Len(errs) > 1 THEN "reviewer"
    ELSE IF requires_visualization THEN "visualization"
    ELSE "END"

route_after_runner(errs, requires_visualization) ==
    IF Len(errs) > 0 THEN "reviewer"
    ELSE IF requires_visualization THEN "visualization"
    ELSE "END"

route_after_reviewer_NoCeiling(count, ceiling, requires_visualization) == "input_writer"

route_after_reviewer(count, ceiling, requires_visualization) ==
    IF count >= ceiling
    THEN IF requires_visualization THEN "visualization" ELSE "END"
    ELSE "input_writer"

\* edges of the graph that carry no condition
MeshingEdge == "input_writer"
VisualizationEdge == "END"

\* ------------------------------------------------------------------------
\* Nodes
\* ------------------------------------------------------------------------
\* architect_node: parse, retrieve, decompose; raises when no subtask comes back
\* the subtasks the planner answers with in a run of the graph
ArchitectPlan == <<FieldU, FvSchemes, ControlDict>>

architect_node ==
    /\ UNCHANGED nonPipeVars
    /\ pc = "architect"
    /\ \E plan \in {ArchitectPlan, <<>>}, requires \in BOOLEAN :
        IF Len(plan) = 0
        THEN /\ pc' = "EXCEPTION"
             /\ UNCHANGED <<subtasks, mesh_type>>
        ELSE /\ subtasks' = plan
             /\ mesh_type' = MeshTypeValue(requires)
             /\ pc' = "route_after_architect"
    /\ UNCHANGED <<max_loop, loop_count, error_logs, history_text, review_analysis,
                   input_writer_mode, mesh_info, job_id, dir_structure, foamfiles,
                   disk, logs, report>>

RouteAfterArchitect ==
    /\ UNCHANGED nonPipeVars
    /\ pc = "route_after_architect"
    /\ \E requires \in BOOLEAN : pc' = route_after_architect(requires)
    /\ UNCHANGED <<max_loop, loop_count, error_logs, history_text, review_analysis,
                   input_writer_mode, subtasks, mesh_type, mesh_info, job_id,
                   dir_structure, foamfiles, disk, logs, report>>

\* meshing_node as it would be if a failed mesh handler raised instead of
\* returning mesh_info None
meshing_node_RaiseOnFailure ==
    /\ UNCHANGED nonPipeVars
    /\ pc = "meshing"
    /\ IF mesh_type = "custom_mesh"
       THEN \E outcome \in {"no_path", "convert_failed", "converted"} :
            /\ mesh_info' = IF outcome = "converted" THEN "custom" ELSE None
            /\ error_logs' = IF outcome = "converted" THEN <<>> ELSE <<MeshError>>
            /\ disk' = IF outcome = "no_path" THEN disk
                       ELSE [disk EXCEPT ![PathOf(ControlDict)] = InitialContent]
            /\ pc' = IF outcome = "converted" THEN MeshingEdge ELSE "EXCEPTION"
       ELSE /\ mesh_info' = None
            /\ error_logs' = <<>>
            /\ disk' = disk
            /\ pc' = MeshingEdge
    /\ UNCHANGED <<max_loop, loop_count, history_text, review_analysis,
                   input_writer_mode, subtasks, mesh_type, job_id, dir_structure,
                   foamfiles, logs, report>>

\* meshing_node: handle_custom_mesh / handle_standard_mesh.  mesh_type is never
\* "gmsh_mesh" here (MeshTypeValue), so handle_gmsh_mesh is not entered by the graph.
meshing_node ==
    /\ UNCHANGED nonPipeVars
    /\ pc = "meshing"
    /\ IF mesh_type = "custom_mesh"
       THEN \E outcome \in {"no_path", "convert_failed", "converted"} :
            /\ mesh_info' = IF outcome = "converted" THEN "custom" ELSE None
            /\ error_logs' = IF outcome = "converted" THEN <<>> ELSE <<MeshError>>
            /\ disk' = IF outcome = "no_path" THEN disk
                       ELSE IF outcome = "convert_failed"
                       THEN [disk EXCEPT ![PathOf(ControlDict)] = InitialContent]
                       ELSE [disk EXCEPT ![PathOf(ControlDict)] = InitialContent,
                                         ![PathOf(PolyMeshBoundary)] = InitialContent]
       ELSE /\ mesh_info' = None
            /\ error_logs' = <<>>
            /\ disk' = disk
    /\ pc' = MeshingEdge
    /\ UNCHANGED <<max_loop, loop_count, history_text, review_analysis,
                   input_writer_mode, subtasks, mesh_type, job_id, dir_structure,
                   foamfiles, logs, report>>

\* input_writer_node in "initial" mode; raises when the command list is empty or
\* the Allrun answer holds no fenced block
InitialWriteMode ==
    /\ UNCHANGED nonPipeVars
    /\ pc = "input_writer"
    /\ input_writer_mode # "rewrite"
    /\ \E generated \in BOOLEAN :
        IF generated
        THEN LET cs == InitialWrite(disk, subtasks)
             IN /\ dir_structure' = cs.dir_structure
                /\ foamfiles' = cs.foamfiles
                /\ disk' = cs.disk
                /\ pc' = "route_after_input_writer"
        ELSE /\ pc' = "EXCEPTION"
             /\ UNCHANGED <<dir_structure, foamfiles, disk>>
    /\ UNCHANGED <<max_loop, loop_count, error_logs, history_text, review_analysis,
                   input_writer_mode, subtasks, mesh_type, mesh_info, job_id, logs,
                   report>>

\* input_writer_node in "rewrite" mode
RewriteMode ==
    /\ UNCHANGED nonPipeVars
    /\ pc = "input_writer"
    /\ input_writer_mode = "rewrite"
    /\ IF review_analysis = ""
       THEN UNCHANGED <<dir_structure, foamfiles, disk, error_logs>>
       ELSE \E response \in PipelineResponses :
            LET cs == ApplyRewrite(CaseState(dir_structure, foamfiles, disk), response)
            IN /\ dir_structure' = cs.dir_structure
               /\ foamfiles' = cs.foamfiles
               /\ disk' = cs.disk
               /\ error_logs' = <<>>
    /\ pc' = "route_after_input_writer"
    /\ UNCHANGED <<max_loop, loop_count, history_text, review_analysis,
                   input_writer_mode, subtasks, mesh_type, mesh_info, job_id, logs,
                   report>>

RouteAfterInputWriter ==
    /\ UNCHANGED nonPipeVars
    /\ pc = "route_after_input_writer"
    /\ \E requires \in BOOLEAN : pc' = route_after_input_writer(requires)
    /\ UNCHANGED <<max_loop, loop_count, error_logs, history_text, review_analysis,
                   input_writer_mode, subtasks, mesh_type, mesh_info, job_id,
                   dir_structure, foamfiles, disk, logs, report>>

\* local_runner_node -> services.run_local.run_allrun_and_collect_errors.
\* run_command raises when the OpenFOAM environment is missing.
local_runner_node ==
    /\ UNCHANGED nonPipeVars
    /\ pc = "local_runner"
    /\ IF disk[PathOf(AllrunEntry)] = NoFile
       THEN /\ error_logs' = <<AllrunMissing>>
            /\ loop_count' = loop_count + 1
            /\ pc' = "route_after_runner"
            /\ UNCHANGED logs
       ELSE \E ran \in BOOLEAN :
            IF ran
            THEN \E produced \in RunOutcomes :
                 /\ logs' = produced
                 /\ error_logs' = check_foam_errors(produced)
                 /\ loop_count' = loop_count + 1
                 /\ pc' = "route_after_runner"
            ELSE /\ logs' = NoLogs
                 /\ pc' = "EXCEPTION"
                 /\ UNCHANGED <<error_logs, loop_count>>
    /\ UNCHANGED <<max_loop, history_text, review_analysis, input_writer_mode,
                   subtasks, mesh_type, mesh_info, job_id, dir_structure, foamfiles,
                   disk, report>>

\* hpc_runner_node: clean up, submit (at most max_loop attempts), poll, parse logs
hpc_runner_node ==
    /\ UNCHANGED nonPipeVars
    /\ pc = "hpc_runner"
    /\ \E outcome \in {"submit_failed", "status_failed", "finished"} :
        CASE outcome = "submit_failed" ->
                /\ logs' = NoLogs
                /\ error_logs' = <<SubmitError>>
                /\ job_id' = None
                /\ UNCHANGED loop_count
          [] outcome = "status_failed" ->
                /\ logs' = NoLogs
                /\ error_logs' = <<StatusError>>
                /\ job_id' = "job"
                /\ UNCHANGED loop_count
          [] outcome = "finished" ->
                \E produced \in RunOutcomes :
                /\ logs' = produced
                /\ error_logs' = check_foam_errors(produced)
                /\ job_id' = "job"
                /\ loop_count' = loop_count + 1
    /\ pc' = "route_after_runner"
    /\ UNCHANGED <<max_loop, history_text, review_analysis, input_writer_mode,
                   subtasks, mesh_type, mesh_info, dir_structure, foamfiles, disk,
                   report>>

\* route_after_runner
RouteAfterRunner ==
    /\ UNCHANGED nonPipeVars
    /\ pc = "route_after_runner"
    /\ \E requires \in BOOLEAN : pc' = route_after_runner(error_logs, requires)
    /\ UNCHANGED <<max_loop, loop_count, error_logs, history_text, review_analysis,
                   input_writer_mode, subtasks, mesh_type, mesh_info, job_id,
                   dir_structure, foamfiles, disk, logs, report>>

\* reviewer_node appends three strings per attempt and numbers the attempt
\* len(history_text)//4 + 1
HistoryItem(kind, attempt, errs, text) ==
    [kind |-> kind, attempt |-> attempt, errors |-> errs, text |-> text]
AttemptLabel(history) == (Len(history) \div 4) + 1
ReviewerAttempt(history, errs, analysis) ==
    << HistoryItem("Attempt+Error_Logs", AttemptLabel(history), errs, ""),
       HistoryItem("Review_Analysis", 0, <<>>, analysis),
       HistoryItem("/Attempt", 0, <<>>, "") >>

\* the transcript pruned of its oldest item before it is extended
PruneHistory(history, current_attempt) ==
    (IF history = <<>> THEN <<>> ELSE Tail(history)) \o current_attempt
\* the transcript replaced by the current attempt instead of extended
ReplaceHistory(history, current_attempt) == current_attempt
\* history_text.extend(hpc_current_attempt)
ExtendHistory(history, current_attempt) == history \o current_attempt

reviewer_node ==
    /\ UNCHANGED nonPipeVars
    /\ pc = "reviewer"
    /\ IF Len(error_logs) = 0
       THEN UNCHANGED <<history_text, review_analysis, loop_count, input_writer_mode>>
       ELSE \E analysis \in Analyses :
            /\ history_text' =
                   ExtendHistory(history_text,
                                 ReviewerAttempt(history_text, error_logs, analysis))
            /\ review_analysis' = analysis
            /\ loop_count' = loop_count + 1
            /\ input_writer_mode' = "rewrite"
    /\ pc' = "route_after_reviewer"
    /\ UNCHANGED <<max_loop, error_logs, subtasks, mesh_type, mesh_info, job_id,
                   dir_structure, foamfiles, disk, logs, report>>

\* route_after_reviewer.  Its assignment state["loop_count"] = loop_count + 1 is
\* made on the router's own copy of the state and is not written back.
RouteAfterReviewer ==
    /\ UNCHANGED nonPipeVars
    /\ pc = "route_after_reviewer"
    /\ \E requires \in BOOLEAN : pc' = route_after_reviewer(loop_count, max_loop, requires)
    /\ UNCHANGED <<max_loop, loop_count, error_logs, history_text, review_analysis,
                   input_writer_mode, subtasks, mesh_type, mesh_info, job_id,
                   dir_structure, foamfiles, disk, logs, report>>

\* visualization_node returns the state with plot keys added
visualization_node ==
    /\ UNCHANGED nonPipeVars
    /\ pc = "visualization"
    /\ pc' = VisualizationEdge
    /\ UNCHANGED <<max_loop, loop_count, error_logs, history_text, review_analysis,
                   input_writer_mode, subtasks, mesh_type, mesh_info, job_id,
                   dir_structure, foamfiles, disk, logs, report>>

\* main(): app.invoke returned, or raised
MainReport(returned) ==
    IF returned THEN "Workflow completed successfully!" ELSE "Workflow failed with error"

main ==
    /\ UNCHANGED nonPipeVars
    /\ pc \in {"END", "EXCEPTION"}
    /\ report' = MainReport(pc = "END")
    /\ pc' = "EXIT"
    /\ UNCHANGED <<max_loop, loop_count, error_logs, history_text, review_analysis,
                   input_writer_mode, subtasks, mesh_type, mesh_info, job_id,
                   dir_structure, foamfiles, disk, logs>>

PipelineNext ==
    \/ architect_node
    \/ RouteAfterArchitect
    \/ meshing_node
    \/ InitialWriteMode
    \/ RewriteMode
    \/ RouteAfterInputWriter
    \/ local_runner_node
    \/ hpc_runner_node
    \/ RouteAfterRunner
    \/ reviewer_node
    \/ RouteAfterReviewer
    \/ visualization_node
    \/ main

\* ------------------------------------------------------------------------
\* A single run request (services/run_local.py, mcp/fastmcp_server.py)
\* ------------------------------------------------------------------------
LogContents ==
    {NoLog, Unreadable, OkLog, FailedLog, FailedTwiceLog, CrashedLog, LongCrashedLog}
AllLogStates == [LogNames -> LogContents]
RunImpls == {"run_simulation_local", "mcp_run"}

\* a cleanup that leaves the log files where they are
remove_files_KeepLogs(logfiles) == logfiles
\* remove_files(case_dir, prefix="log"): every entry named log* is removed
remove_files(logfiles) == [f \in DOMAIN logfiles |-> NoLog]

\* run_allrun_and_collect_errors, once run_command has returned
run_allrun_and_collect_errors(allrun_exists, logfiles) ==
    IF ~allrun_exists THEN <<AllrunMissing>> ELSE check_foam_errors(logfiles)

\* what the Allrun process may have written to a stream
Streams == {<<>>, <<"output">>}
TimeoutMessage == "OpenFOAM execution took too long."
AbsentFile == <<NoFile>>

\* process.kill(): the signal reaches the shell that Popen started and nothing else
process_kill(group) == group \cap {"bash"}
\* os.killpg(os.getpgid(process.pid), signal.SIGKILL): the processes it ends.
\* start_new_session=True made the shell the leader of a group of its own.
killpg(group) == group

\* run_command with the marker written to the stdout file only
run_command_MarkStdoutOnly(timed_out, stdout, stderr, running) ==
    [out |-> IF timed_out THEN <<TimeoutMessage>> \o stdout ELSE stdout,
     err |-> stderr,
     procs |-> IF timed_out
               THEN [killed |-> killpg(running), alive |-> running \ killpg(running)]
               ELSE [killed |-> {}, alive |-> running \ {"bash"}]]
\* utils.run_command once the environment checks have passed: what the two
\* files hold when it returns, and what became of the processes of the group
\* that were running when communicate() returned or timed out
run_command(timed_out, stdout, stderr, running) ==
    IF timed_out
    THEN [out |-> <<TimeoutMessage>> \o stdout, err |-> <<TimeoutMessage>> \o stderr,
          procs |-> [killed |-> killpg(running), alive |-> running \ killpg(running)]]
    ELSE [out |-> stdout, err |-> stderr,
          procs |-> [killed |-> {}, alive |-> running \ {"bash"}]]

RunOutStatusLenient(errors) == IF Len(errors) <= 1 THEN "completed" ELSE "failed"

\* run_simulation_local: status = "completed" if len(errors) == 0 else "failed"
RunOutStatus(errors) == IF Len(errors) = 0 THEN "completed" ELSE "failed"

\* run: each error record becomes the string "file: error_content"
RECURSIVE McpErrorStrings(_)
McpErrorStrings(errors) ==
    IF errors = <<>> THEN <<>>
    ELSE << <<Head(errors).file, ": ", Head(errors).error_content>> >>
            \o McpErrorStrings(Tail(errors))

\* run: status = "success" if not errors else "failed"
McpStatus(errors) == IF errors = <<>> THEN "success" ELSE "failed"

RunIdle ==
    /\ run_impl = None
    /\ run_stage = "idle"
    /\ run_dir = FALSE
    /\ run_allrun = FALSE
    /\ run_logs = NoLogs
    /\ run_errors = <<>>
    /\ run_response = None
    /\ run_status = None
    /\ run_out_file = AbsentFile
    /\ run_err_file = AbsentFile
    /\ run_timed_out = FALSE
    /\ run_procs = [killed |-> {}, alive |-> {}]
    /\ run_written = NoLogs

RunInit ==
    /\ run_impl \in RunImpls
    /\ run_stage = "request"
    /\ run_dir \in BOOLEAN
    /\ run_allrun \in {present \in BOOLEAN : present => run_dir}
    /\ run_logs \in IF run_dir THEN AllLogStates ELSE {NoLogs}
    /\ run_errors = <<>>
    /\ run_response = None
    /\ run_status = None
    /\ run_out_file = AbsentFile
    /\ run_err_file = AbsentFile
    /\ run_timed_out = FALSE
    /\ run_procs = [killed |-> {}, alive |-> {}]
    /\ run_written = NoLogs

\* run_allrun_and_collect_errors has removed Allrun.out and Allrun.err, and
\* run_command raised before opening them
CleanedUp ==
    /\ run_out_file' = AbsentFile
    /\ run_err_file' = AbsentFile
    /\ run_timed_out' = FALSE
    /\ UNCHANGED run_procs

\* run_command ran the script: it ended in time, or the whole process group
\* was killed at the time limit
RunCommand ==
    \E timed_out \in BOOLEAN, stdout \in Streams, stderr \in Streams,
       descendants \in SUBSET {"simpleFoam"} :
        LET running == IF timed_out THEN {"bash"} \cup descendants ELSE descendants
            done == run_command(timed_out, stdout, stderr, running)
        IN /\ run_timed_out' = timed_out
           /\ run_out_file' = done.out
           /\ run_err_file' = done.err
           /\ run_procs' = done.procs

run_simulation_local ==
    /\ run_stage = "request"
    /\ run_impl = "run_simulation_local"
    /\ \E env_ok \in BOOLEAN, produced \in AllLogStates :
        IF ~run_allrun
        THEN /\ run_errors' = run_allrun_and_collect_errors(FALSE, run_logs)
             /\ run_status' = RunOutStatus(run_errors')
             /\ run_stage' = "returned"
             /\ UNCHANGED <<run_logs, run_out_file, run_err_file, run_timed_out, run_procs,
                            run_written>>
        ELSE IF ~env_ok
        THEN /\ run_logs' = remove_files(run_logs)
             /\ run_stage' = "raised"
             /\ CleanedUp
             /\ UNCHANGED <<run_errors, run_status, run_written>>
        ELSE /\ run_logs' = [f \in LogNames |-> IF produced[f] # NoLog THEN produced[f]
                                                ELSE remove_files(run_logs)[f]]
             /\ run_written' = produced
             /\ RunCommand
             /\ run_errors' = run_allrun_and_collect_errors(TRUE, run_logs')
             /\ run_status' = RunOutStatus(run_errors')
             /\ run_stage' = "returned"
    /\ UNCHANGED <<run_impl, run_dir, run_allrun, run_response>>
    /\ UNCHANGED nonRunVars

mcp_run ==
    /\ run_stage = "request"
    /\ run_impl = "mcp_run"
    /\ \E env_ok \in BOOLEAN, produced \in AllLogStates :
        IF ~run_dir
        THEN /\ run_stage' = "raised"
             /\ UNCHANGED <<run_logs, run_errors, run_response, run_status,
                            run_out_file, run_err_file, run_timed_out, run_procs,
                            run_written>>
        ELSE IF ~run_allrun
        THEN /\ run_errors' = run_allrun_and_collect_errors(FALSE, run_logs)
             /\ run_response' = McpErrorStrings(run_errors')
             /\ run_status' = McpStatus(run_response')
             /\ run_stage' = "returned"
             /\ UNCHANGED <<run_logs, run_out_file, run_err_file, run_timed_out, run_procs,
                            run_written>>
        ELSE IF ~env_ok
        THEN /\ run_logs' = remove_files(run_logs)
             /\ run_stage' = "raised"
             /\ CleanedUp
             /\ UNCHANGED <<run_errors, run_response, run_status, run_written>>
        ELSE /\ run_logs' = [f \in LogNames |-> IF produced[f] # NoLog THEN produced[f]
                                                ELSE remove_files(run_logs)[f]]
             /\ run_written' = produced
             /\ RunCommand
             /\ run_errors' = run_allrun_and_collect_errors(TRUE, run_logs')
             /\ run_response' = McpErrorStrings(run_errors')
             /\ run_status' = McpStatus(run_response')
             /\ run_stage' = "returned"
    /\ UNCHANGED <<run_impl, run_dir, run_allrun>>
    /\ UNCHANGED nonRunVars

\* the caller asks for another run of the same case directory
RunRequest ==
    /\ run_stage \in {"returned", "raised"}
    /\ run_stage' = "request"
    /\ run_impl' \in RunImpls
    /\ run_errors' = <<>>
    /\ run_response' = None
    /\ run_status' = None
    /\ run_written' = NoLogs
    /\ UNCHANGED <<run_dir, run_allrun, run_logs, run_out_file, run_err_file,
                   run_timed_out, run_procs>>
    /\ UNCHANGED nonRunVars

RunNext ==
    \/ run_simulation_local
    \/ mcp_run
    \/ RunRequest

PipelineIdle ==
    /\ pc = "idle"
    /\ max_loop = 1
    /\ loop_count = 0
    /\ error_logs = <<>>
    /\ history_text = <<>>
    /\ review_analysis = ""
    /\ input_writer_mode = "initial"
    /\ subtasks = <<>>
    /\ mesh_type = None
    /\ mesh_info = None
    /\ job_id = None
    /\ dir_structure = EmptyDirStructure
    /\ foamfiles = <<>>
    /\ disk = EmptyDisk
    /\ logs = NoLogs
    /\ report = ""

\* ------------------------------------------------------------------------
\* A single repair request (_rewrite_mode, services/input_writer.py)
\* ------------------------------------------------------------------------
RewriteImpls == {"_rewrite_mode", "rewrite_files"}

RewriteIdle ==
    /\ rw_impl = None
    /\ rw_stage = "idle"
    /\ rw_case = CaseState(EmptyDirStructure, <<>>, EmptyDisk)
    /\ rw_response = <<>>

\* an empty case directory and a plan to write
RewriteInit ==
    /\ rw_impl \in RewriteImpls
    /\ rw_stage = "write"
    /\ rw_case = CaseState(EmptyDirStructure, <<>>, EmptyDisk)
    /\ rw_response = <<>>

\* _initial_write_mode / services.input_writer.initial_write: the subtasks
\* sorted by compute_priority and written one after the other
initial_write ==
    /\ rw_stage = "write"
    /\ \E plan \in PlanOutputs : rw_case' = InitialWrite(EmptyDisk, plan)
    /\ rw_stage' = "request"
    /\ UNCHANGED <<rw_impl, rw_response>>
    /\ UNCHANGED nonRewriteVars

\* _rewrite_mode returns the state as it is when there is no review analysis
rewrite_mode ==
    /\ rw_stage = "request"
    /\ rw_impl = "_rewrite_mode"
    /\ \E analysis \in Analyses, response \in RewriteResponses :
        IF analysis = ""
        THEN /\ rw_response' = <<>>
             /\ UNCHANGED rw_case
        ELSE /\ rw_response' = response
             /\ rw_case' = ApplyRewrite(rw_case, response)
    /\ rw_stage' = "returned"
    /\ UNCHANGED rw_impl
    /\ UNCHANGED nonRewriteVars

\* rewrite_files raises ValueError when review_analysis is empty
rewrite_files ==
    /\ rw_stage = "request"
    /\ rw_impl = "rewrite_files"
    /\ \E analysis \in Analyses, response \in RewriteResponses :
        IF analysis = ""
        THEN /\ rw_response' = <<>>
             /\ rw_stage' = "raised"
             /\ UNCHANGED rw_case
        ELSE /\ rw_response' = response
             /\ rw_case' = ApplyRewrite(rw_case, response)
             /\ rw_stage' = "returned"
    /\ UNCHANGED rw_impl
    /\ UNCHANGED nonRewriteVars

\* the next repair iteration
RewriteRequest ==
    /\ rw_stage \in {"returned", "raised"}
    /\ rw_stage' = "request"
    /\ rw_impl' \in RewriteImpls
    /\ UNCHANGED <<rw_case, rw_response>>
    /\ UNCHANGED nonRewriteVars

RewriteNext ==
    \/ initial_write
    \/ rewrite_mode
    \/ rewrite_files
    \/ RewriteRequest

\* ------------------------------------------------------------------------
\* The gmsh mesh loop (handle_gmsh_mesh in nodes/meshing_node.py and in
\* services/mesh.py)
\* ------------------------------------------------------------------------
MeshImpls == {"node", "service"}
ExpectedLists == { <<"inlet", "outlet">>, <<"inlet">> }
FoundLists ==
    { <<"inlet", "outlet">>, <<"outlet", "inlet">>, <<"inlet">>,
      <<"inlet", "outlet", "defaultFaces">>, <<"inlet", "inlet">>, <<>> }

\* checkMesh: what it printed, or the exception subprocess.run raised
CheckMeshPrinted(failed, mesh_checks, matched, count) ==
    [raised |-> "", failed |-> failed, mesh_checks |-> mesh_checks,
     matched |-> matched, count |-> count]
CheckMeshRaised(exception) ==
    [raised |-> exception, failed |-> FALSE, mesh_checks |-> FALSE,
     matched |-> FALSE, count |-> 0]
MeshOK == CheckMeshPrinted(FALSE, FALSE, FALSE, 0)
CheckMeshOutcomes ==
    { MeshOK,
      CheckMeshPrinted(TRUE, FALSE, FALSE, 0),
      CheckMeshPrinted(TRUE, TRUE, FALSE, 0),
      CheckMeshRaised("CalledProcessError"),
      CheckMeshRaised("Exception") }
    \cup { CheckMeshPrinted(TRUE, TRUE, TRUE, n) : n \in 0..MaxFailedChecks }
NoCheckMesh == CheckMeshRaised("not run")
\* no boundary file has been read
NotChecked == <<"not checked">>

\* check_boundary_file_for_missing_boundaries
check_boundary_file_for_missing_boundaries(found, expected) ==
    LET missing == FilterSeq(expected, Range(expected) \ Range(found))
    IN [all_present |-> Len(missing) = 0, missing |-> missing, found |-> found]

\* set(found_boundaries) != set(expected_boundaries)
BoundaryMismatch(found, expected) == Range(found) # Range(expected)

\* a correction prompt for a boundary mismatch that leaves the two sets out
CorrectionPromptNoBoundaryInfo(error_output, found, expected) ==
    IF error_output = "Boundary mismatch after gmshToFoam" THEN {}
    ELSE {[tag |-> "gmsh_python_error_output", value |-> <<error_output>>]}
\* the correction_prompt of _correct_gmsh_python_code: boundary_info for a
\* boundary mismatch whose two lists are not None, else the error output
CorrectionPrompt(error_output, found, expected) ==
    IF error_output = "Boundary mismatch after gmshToFoam"
    THEN IF found # NotChecked /\ expected # NotChecked
         THEN {[tag |-> "found_boundaries", value |-> found],
               [tag |-> "expected_boundaries", value |-> expected]}
         ELSE {}
    ELSE {[tag |-> "gmsh_python_error_output", value |-> <<error_output>>]}

\* _correct_gmsh_python_code.  The node reads state['found_boundaries'] first,
\* and the KeyError of a state without that key is swallowed into "None".
NodeCorrect(keys, llm_answers) == keys /\ llm_answers
ServiceCorrect(llm_answers) == llm_answers

WhileGuardInclusive(loop, ceiling) == loop <= ceiling

\* while gmsh_python_current_loop < max_loop
WhileGuard(loop, ceiling) == loop < ceiling

\* run_checkmesh_and_correct of nodes/meshing_node.py: (success, should_continue).
\* The corrected code goes to state['corrected_python_code'], not to the caller.
NodeCheckMesh(output, loop, ceiling, corrected) ==
    IF output.raised = "CalledProcessError"
    THEN [success |-> FALSE, should_continue |-> loop < ceiling, corrected |-> FALSE]
    ELSE IF output.raised # ""
    THEN [success |-> FALSE, should_continue |-> FALSE, corrected |-> FALSE]
    ELSE IF output.failed /\ output.mesh_checks
    THEN IF output.matched
         THEN IF loop < ceiling
              THEN IF corrected
                   THEN [success |-> FALSE, should_continue |-> TRUE, corrected |-> FALSE]
                   ELSE [success |-> FALSE, should_continue |-> FALSE, corrected |-> FALSE]
              ELSE [success |-> FALSE, should_continue |-> FALSE, corrected |-> FALSE]
         ELSE [success |-> FALSE, should_continue |-> FALSE, corrected |-> FALSE]
    ELSE [success |-> TRUE, should_continue |-> FALSE, corrected |-> FALSE]

\* a quality step that continues but hands no corrected code to the loop
ServiceCheckMeshDropCorrected(output, loop, ceiling, corrected) ==
    IF output.raised = "CalledProcessError"
    THEN [success |-> FALSE, should_continue |-> loop < ceiling, corrected |-> FALSE]
    ELSE IF output.raised # ""
    THEN [success |-> FALSE, should_continue |-> FALSE, corrected |-> FALSE]
    ELSE IF output.failed /\ output.mesh_checks
    THEN IF output.matched /\ loop < ceiling /\ corrected
         THEN [success |-> FALSE, should_continue |-> TRUE, corrected |-> FALSE]
         ELSE [success |-> FALSE, should_continue |-> FALSE, corrected |-> FALSE]
    ELSE [success |-> TRUE, should_continue |-> FALSE, corrected |-> FALSE]

\* run_checkmesh_and_correct of services/mesh.py: (success, should_continue, corrected_code)
ServiceCheckMesh(output, loop, ceiling, corrected) ==
    IF output.raised = "CalledProcessError"
    THEN [success |-> FALSE, should_continue |-> loop < ceiling, corrected |-> FALSE]
    ELSE IF output.raised # ""
    THEN [success |-> FALSE, should_continue |-> FALSE, corrected |-> FALSE]
    ELSE IF output.failed /\ output.mesh_checks
    THEN IF output.matched /\ loop < ceiling /\ corrected
         THEN [success |-> FALSE, should_continue |-> TRUE, corrected |-> TRUE]
         ELSE [success |-> FALSE, should_continue |-> FALSE, corrected |-> FALSE]
    ELSE [success |-> TRUE, should_continue |-> FALSE, corrected |-> FALSE]

MeshIdle ==
    /\ mesh_impl = None
    /\ mesh_pc = "idle"
    /\ mesh_max_loop = 0
    /\ gmsh_python_current_loop = 0
    /\ corrected_python_code = FALSE
    /\ geometry_type = None
    /\ boundary_keys = FALSE
    /\ expected_boundaries = <<>>
    /\ found_boundaries = NotChecked
    /\ checkmesh_output = NoCheckMesh
    /\ gmsh_result = None
    /\ stderr_output = ""
    /\ correction_prompt = {}

\* the locals of handle_gmsh_mesh before its while loop
MeshInit ==
    /\ mesh_impl \in MeshImpls
    /\ mesh_pc = "GENERATE"
    /\ mesh_max_loop \in 0..MaxMeshLoop
    /\ gmsh_python_current_loop = 0
    /\ corrected_python_code = FALSE
    /\ geometry_type = None
    /\ boundary_keys = FALSE
    /\ expected_boundaries \in ExpectedLists
    /\ found_boundaries = NotChecked
    /\ checkmesh_output = NoCheckMesh
    /\ gmsh_result = None
    /\ stderr_output = ""
    /\ correction_prompt = {}

\* _correct_gmsh_python_code as called by the implementation that runs
Correct(llm_answers) ==
    IF mesh_impl = "node" THEN NodeCorrect(boundary_keys, llm_answers)
    ELSE ServiceCorrect(llm_answers)

\* return {"mesh_info": {...}} and return {"mesh_info": None, ...}
MeshAccept == mesh_pc' = "returned" /\ gmsh_result' = "gmsh"
MeshAbort == mesh_pc' = "returned" /\ gmsh_result' = None
\* "continue", and the end of an except block below the ceiling
MeshContinue == mesh_pc' = "GENERATE" /\ UNCHANGED gmsh_result
\* if gmsh_python_current_loop >= max_loop: return ...; continue
AbortOrContinue ==
    IF gmsh_python_current_loop >= mesh_max_loop THEN MeshAbort ELSE MeshContinue

\* except subprocess.CalledProcessError of the outer try
OuterCalledProcessError(llm_answers) ==
    /\ corrected_python_code' =
          (gmsh_python_current_loop < mesh_max_loop /\ Correct(llm_answers))
    /\ IF corrected_python_code' THEN MeshContinue ELSE AbortOrContinue

\* the loop test, the increment, and the code to use: generated or corrected
MeshGenerate ==
    /\ mesh_pc = "GENERATE"
    /\ IF ~WhileGuard(gmsh_python_current_loop, mesh_max_loop)
       THEN /\ MeshAbort
            /\ UNCHANGED <<gmsh_python_current_loop, corrected_python_code, geometry_type>>
       ELSE /\ gmsh_python_current_loop' = gmsh_python_current_loop + 1
            /\ corrected_python_code' = FALSE
            /\ IF corrected_python_code
               THEN /\ geometry_type' = "corrected"
                    /\ mesh_pc' = "RUN"
                    /\ UNCHANGED gmsh_result
               ELSE \E response \in {"code", "empty", "raised"} :
                    IF response = "code"
                    THEN /\ geometry_type' = "generated"
                         /\ mesh_pc' = "RUN"
                         /\ UNCHANGED gmsh_result
                    ELSE /\ UNCHANGED geometry_type
                         /\ IF gmsh_python_current_loop' >= mesh_max_loop
                            THEN MeshAbort ELSE MeshContinue
    /\ correction_prompt' = {}
    /\ UNCHANGED <<mesh_impl, mesh_max_loop, boundary_keys, expected_boundaries,
                   found_boundaries, checkmesh_output, stderr_output>>
    /\ UNCHANGED nonMeshVars

\* python generate_mesh.py
MeshRun ==
    /\ mesh_pc = "RUN"
    /\ \E outcome \in {"msh", "exit_nonzero", "no_msh"}, stderr \in BOOLEAN,
          llm_answers \in BOOLEAN :
        /\ stderr_output' = IF stderr THEN "Traceback" ELSE ""
        /\ correction_prompt' =
              IF /\ (outcome = "exit_nonzero" \/ (outcome = "no_msh" /\ stderr))
                 /\ gmsh_python_current_loop < mesh_max_loop
                 /\ (mesh_impl = "service" \/ boundary_keys)
              THEN CorrectionPrompt(stderr_output', NotChecked, NotChecked)
              ELSE {}
        /\ CASE outcome = "msh" ->
                /\ mesh_pc' = "CONVERT"
                /\ UNCHANGED <<corrected_python_code, gmsh_result>>
          [] outcome = "exit_nonzero" ->
                OuterCalledProcessError(llm_answers)
          [] outcome = "no_msh" ->
                /\ corrected_python_code' =
                      (/\ stderr
                       /\ gmsh_python_current_loop < mesh_max_loop
                       /\ Correct(llm_answers))
                /\ IF corrected_python_code' THEN MeshContinue ELSE AbortOrContinue
    /\ UNCHANGED <<mesh_impl, mesh_max_loop, gmsh_python_current_loop, geometry_type,
                   boundary_keys, expected_boundaries, found_boundaries,
                   checkmesh_output>>
    /\ UNCHANGED nonMeshVars

\* the controlDict for the conversion, gmshToFoam, and the look for polyMesh/boundary
MeshConvert ==
    /\ mesh_pc = "CONVERT"
    /\ \E outcome \in {"boundary", "no_boundary", "CalledProcessError", "Exception"},
          llm_answers \in BOOLEAN, stderr \in BOOLEAN :
        /\ correction_prompt' =
              IF /\ outcome = "CalledProcessError"
                 /\ mesh_impl = "service"
                 /\ gmsh_python_current_loop < mesh_max_loop
              THEN CorrectionPrompt(IF stderr THEN "Traceback" ELSE "",
                                    NotChecked, NotChecked)
              ELSE {}
        /\ CASE outcome = "boundary" ->
                /\ mesh_pc' = "CHECK_BOUNDARIES"
                /\ UNCHANGED <<corrected_python_code, gmsh_result>>
          [] outcome = "no_boundary" ->
                /\ MeshAccept
                /\ UNCHANGED corrected_python_code
          [] outcome = "CalledProcessError" ->
                IF mesh_impl = "node"
                THEN /\ UNCHANGED corrected_python_code
                     /\ IF gmsh_python_current_loop < mesh_max_loop
                        THEN MeshContinue ELSE MeshAbort
                ELSE OuterCalledProcessError(llm_answers)
          [] outcome = "Exception" ->
                /\ AbortOrContinue
                /\ UNCHANGED corrected_python_code
    /\ UNCHANGED <<mesh_impl, mesh_max_loop, gmsh_python_current_loop, geometry_type,
                   boundary_keys, expected_boundaries, found_boundaries,
                   checkmesh_output, stderr_output>>
    /\ UNCHANGED nonMeshVars

\* if set(found_boundaries) != set(expected_boundaries): ...
MeshCheckBoundaries ==
    /\ mesh_pc = "CHECK_BOUNDARIES"
    /\ \E found \in FoundLists, llm_answers \in BOOLEAN :
        LET checked == check_boundary_file_for_missing_boundaries(found, expected_boundaries)
        IN
        /\ found_boundaries' = checked.found
        /\ correction_prompt' =
              IF /\ BoundaryMismatch(checked.found, expected_boundaries)
                 /\ gmsh_python_current_loop < mesh_max_loop
              THEN CorrectionPrompt("Boundary mismatch after gmshToFoam",
                                    checked.found, expected_boundaries)
              ELSE {}
        /\ IF BoundaryMismatch(checked.found, expected_boundaries)
           THEN /\ boundary_keys' = (mesh_impl = "node")
                /\ IF gmsh_python_current_loop < mesh_max_loop
                   THEN /\ corrected_python_code' =
                              IF mesh_impl = "node"
                              THEN NodeCorrect(boundary_keys', llm_answers)
                              ELSE ServiceCorrect(llm_answers)
                        /\ IF corrected_python_code' THEN MeshContinue
                           ELSE IF mesh_impl = "node" THEN MeshAccept
                           ELSE mesh_pc' = "CHECK_QUALITY" /\ UNCHANGED gmsh_result
                   ELSE /\ MeshAbort
                        /\ UNCHANGED corrected_python_code
           ELSE /\ boundary_keys' = FALSE
                /\ mesh_pc' = "CHECK_QUALITY"
                /\ UNCHANGED <<corrected_python_code, gmsh_result>>
    /\ UNCHANGED <<mesh_impl, mesh_max_loop, gmsh_python_current_loop, geometry_type,
                   expected_boundaries, checkmesh_output, stderr_output>>
    /\ UNCHANGED nonMeshVars

\* run_checkmesh_and_correct and what handle_gmsh_mesh does with its result,
\* then the rewrite of the boundary file
MeshCheckQuality ==
    /\ mesh_pc = "CHECK_QUALITY"
    /\ \E output \in CheckMeshOutcomes, llm_answers \in BOOLEAN, boundary_llm_raises \in BOOLEAN :
        LET result == IF mesh_impl = "node"
                      THEN NodeCheckMesh(output, gmsh_python_current_loop, mesh_max_loop,
                                         NodeCorrect(boundary_keys, llm_answers))
                      ELSE ServiceCheckMesh(output, gmsh_python_current_loop, mesh_max_loop,
                                            ServiceCorrect(llm_answers))
        IN
        /\ checkmesh_output' = output
        /\ correction_prompt' =
              IF /\ output.raised = ""
                 /\ output.failed /\ output.mesh_checks /\ output.matched
                 /\ gmsh_python_current_loop < mesh_max_loop
                 /\ (mesh_impl = "service" \/ boundary_keys)
              THEN CorrectionPrompt("checkMesh output", NotChecked, NotChecked)
              ELSE {}
        /\ corrected_python_code' = result.corrected
        /\ IF result.success
           THEN IF boundary_llm_raises THEN AbortOrContinue ELSE MeshAccept
           ELSE IF result.should_continue THEN MeshContinue ELSE MeshAbort
    /\ UNCHANGED <<mesh_impl, mesh_max_loop, gmsh_python_current_loop, geometry_type,
                   boundary_keys, expected_boundaries, found_boundaries, stderr_output>>
    /\ UNCHANGED nonMeshVars

MeshNext ==
    \/ MeshGenerate
    \/ MeshRun
    \/ MeshConvert
    \/ MeshCheckBoundaries
    \/ MeshCheckQuality

\* ------------------------------------------------------------------------
\* Retrieval of the reference case
\* ------------------------------------------------------------------------
RetrieveImpls == {"plan", "node"}
Domains == {"incompressible", "compressible"}
Solvers == {"simpleFoam", "icoFoam"}

\* a score is <<distance>>, or <<>> for Python's None
NoScore == <<>>
EmptyText == <<>>

\* one formatted hit of retrieve_faiss("openfoam_tutorials_structure", ...)
Hit(name, domain, solver, score) ==
    [case_name |-> name, case_domain |-> domain, case_solver |-> solver, score |-> score]
HitAttributes(scores) == [case_domain : Domains, case_solver : Solvers, score : scores]

score_val(item) == IF item.score = NoScore THEN 0 ELSE item.score[1]

\* the hits keep the order of similarity_search_with_score: nearest first
NearestFirst(c) == \A i \in 1..(Len(c) - 1) : score_val(c[i]) <= score_val(c[i + 1])
Named(c) ==
    [i \in 1..Len(c) |-> Hit(i, c[i].case_domain, c[i].case_solver, c[i].score)]

\* retrieve_faiss raises when the index answers nothing; without scores
\* (the fallback similarity_search) every hit carries None
FaissResults ==
    {Named(c) : c \in
        {c \in SeqsUpTo(HitAttributes({<<n>> : n \in 0..MaxScore}), MaxCandidates) :
            Len(c) >= 1 /\ NearestFirst(c)}
        \cup {c \in SeqsUpTo(HitAttributes({NoScore}), MaxCandidates) : Len(c) >= 1}}

solver_match(item, case_solver) == IF item.case_solver = case_solver THEN 1 ELSE 0

\* key(a) <= key(b) for the tuples (-solver_match, score_val)
KeyLeq(a, b, case_solver) ==
    \/ solver_match(a, case_solver) > solver_match(b, case_solver)
    \/ /\ solver_match(a, case_solver) = solver_match(b, case_solver)
       /\ score_val(a) <= score_val(b)

RECURSIVE InsertRanked(_, _, _)
InsertRanked(ranked, item, case_solver) ==
    IF ranked = <<>> THEN <<item>>
    ELSE IF KeyLeq(Head(ranked), item, case_solver)
         THEN <<Head(ranked)>> \o InsertRanked(Tail(ranked), item, case_solver)
         ELSE <<item>> \o ranked

\* sorted(candidates, key=key): stable
RECURSIVE rerank_candidates(_, _)
rerank_candidates(candidates, case_solver) ==
    IF candidates = <<>> THEN <<>>
    ELSE InsertRanked(rerank_candidates(SubSeq(candidates, 1, Len(candidates) - 1),
                                        case_solver),
                      candidates[Len(candidates)], case_solver)

\* the hard constraint of retrieve_references
DomainMatched(candidates, case_domain) ==
    SelectSeq(candidates, LAMBDA c : c.case_domain = case_domain)

NoReference ==
    [faiss_detailed |-> EmptyText, dir_structure |-> EmptyText,
     dir_counts_str |-> EmptyText, allrun_reference |-> EmptyText]
\* the texts built from the details record of the case called name
ReferenceOf(name) ==
    [faiss_detailed |-> <<"details", name>>, dir_structure |-> <<"structure", name>>,
     dir_counts_str |-> <<"counts", name>>, allrun_reference |-> <<"allrun", name>>]

RetrieveIdle ==
    /\ rt_impl = None
    /\ rt_stage = "idle"
    /\ rt_case_domain = None
    /\ rt_case_solver = None
    /\ rt_candidates = <<>>
    /\ rt_selected = <<>>
    /\ rt_result = NoReference

RetrieveInit ==
    /\ rt_impl \in RetrieveImpls
    /\ rt_stage = "request"
    /\ rt_case_domain \in Domains
    /\ rt_case_solver \in Solvers
    /\ rt_candidates \in FaissResults
    /\ rt_selected = <<>>
    /\ rt_result = NoReference

\* services/plan.py retrieve_references
retrieve_references ==
    /\ rt_impl = "plan"
    /\ rt_stage = "request"
    /\ LET domain_matched == DomainMatched(rt_candidates, rt_case_domain)
           ranked == rerank_candidates(domain_matched, rt_case_solver)
       IN IF domain_matched = <<>>
          THEN /\ rt_selected' = <<>>
               /\ rt_result' = NoReference
          ELSE \E has_directory_structure \in BOOLEAN :
               /\ rt_selected' = <<ranked[1]>>
               /\ rt_result' = IF has_directory_structure
                               THEN ReferenceOf(ranked[1].case_name)
                               ELSE NoReference
    /\ rt_stage' = "returned"
    /\ UNCHANGED <<rt_impl, rt_case_domain, rt_case_solver, rt_candidates>>
    /\ UNCHANGED nonRetrieveVars

\* nodes/architect_node.py, step 3: the first hit of the structure index, then
\* a second query of the details index with that hit's text
architect_retrieve ==
    /\ rt_impl = "node"
    /\ rt_stage = "request"
    /\ rt_selected' = <<rt_candidates[1]>>
    /\ \E detailed \in 1..Len(rt_candidates), has_directory_structure \in BOOLEAN :
        IF has_directory_structure
        THEN /\ rt_result' = ReferenceOf(detailed)
             /\ rt_stage' = "returned"
        ELSE /\ rt_result' = rt_result
             /\ rt_stage' = "raised"
    /\ UNCHANGED <<rt_impl, rt_case_domain, rt_case_solver, rt_candidates>>
    /\ UNCHANGED nonRetrieveVars

RetrieveNext ==
    \/ retrieve_references
    \/ architect_retrieve

\* ------------------------------------------------------------------------
\* The review step
\* ------------------------------------------------------------------------
ReviewImpls == {"reviewer_node", "review_error_logs"}

\* services.review_error_logs: four strings per attempt
ServiceAttempt(history, errs, analysis) ==
    << HistoryItem("Attempt", AttemptLabel(history), <<>>, ""),
       HistoryItem("Error_Logs", 0, errs, ""),
       HistoryItem("Review_Analysis", 0, <<>>, analysis),
       HistoryItem("/Attempt", 0, <<>>, "") >>

CurrentAttempt(impl, history, errs, analysis) ==
    IF impl = "reviewer_node" THEN ReviewerAttempt(history, errs, analysis)
    ELSE ServiceAttempt(history, errs, analysis)

\* the error lists a run hands to the review
ReviewErrorLogs ==
    {<<>>, <<AllrunMissing>>} \cup {check_foam_errors(produced) : produced \in RunOutcomes}

\* the transcripts of at most n earlier attempts
RECURSIVE Histories(_, _)
Histories(impl, n) ==
    IF n = 0 THEN {<<>>}
    ELSE LET earlier == Histories(impl, n - 1)
         IN earlier \cup
            {ExtendHistory(h, CurrentAttempt(impl, h, errs, analysis)) :
                h \in earlier, errs \in ReviewErrorLogs \ {<<>>}, analysis \in Analyses}

ReviewIdle ==
    /\ rv_impl = None
    /\ rv_stage = "idle"
    /\ rv_case = CaseState(EmptyDirStructure, <<>>, EmptyDisk)
    /\ rv_error_logs = <<>>
    /\ rv_history_text = <<>>
    /\ rv_review_analysis = ""
    /\ rv_loop_count = 0
    /\ rv_input_writer_mode = "initial"

ReviewInit ==
    /\ rv_impl \in ReviewImpls
    /\ rv_stage = "request"
    /\ rv_case \in {InitialWrite(EmptyDisk, plan) : plan \in PlanOutputs}
    /\ rv_error_logs \in ReviewErrorLogs
    /\ rv_history_text \in Histories(rv_impl, MaxAttempts - 1)
    /\ rv_review_analysis = ""
    /\ rv_loop_count = 1
    /\ rv_input_writer_mode = "initial"

\* reviewer_node as a call: the keys of the returned dictionary
reviewer_node_call ==
    /\ rv_impl = "reviewer_node"
    /\ rv_stage = "request"
    /\ IF Len(rv_error_logs) = 0
       THEN UNCHANGED <<rv_history_text, rv_review_analysis, rv_loop_count,
                        rv_input_writer_mode>>
       ELSE \E analysis \in Analyses :
            /\ rv_history_text' =
                   ExtendHistory(rv_history_text,
                                 ReviewerAttempt(rv_history_text, rv_error_logs, analysis))
            /\ rv_review_analysis' = analysis
            /\ rv_loop_count' = rv_loop_count + 1
            /\ rv_input_writer_mode' = "rewrite"
    /\ rv_stage' = "returned"
    /\ UNCHANGED <<rv_impl, rv_case, rv_error_logs>>
    /\ UNCHANGED nonReviewVars

\* services.review_error_logs returns (review_content, updated_history)
review_error_logs ==
    /\ rv_impl = "review_error_logs"
    /\ rv_stage = "request"
    /\ \E analysis \in Analyses :
        /\ rv_history_text' =
               ExtendHistory(rv_history_text,
                             ServiceAttempt(rv_history_text, rv_error_logs, analysis))
        /\ rv_review_analysis' = analysis
    /\ rv_stage' = "returned"
    /\ UNCHANGED <<rv_impl, rv_case, rv_error_logs, rv_loop_count, rv_input_writer_mode>>
    /\ UNCHANGED nonReviewVars

ReviewNext ==
    \/ reviewer_node_call
    \/ review_error_logs

\* ------------------------------------------------------------------------
\* The SLURM runner (nodes/hpc_runner_node.py, services/run_hpc.py)
\* ------------------------------------------------------------------------
max_wait_time == 3600
wait_interval == 30

HpcIdle ==
    /\ hpc_impl = None
    /\ hpc_pc = "idle"
    /\ hpc_max_loop = 1
    /\ hpc_current_attempt = 0
    /\ last_error_msg = ""
    /\ slurm_prompt = {}
    /\ elapsed_time = 0
    /\ status_checks = 0
    /\ hpc_status = None
    /\ hpc_logs = NoLogs
    /\ hpc_error_logs = <<>>
    /\ hpc_job_id = None

\* the node is entered with the logs and the error list of the run before;
\* wait_for_job is called with the id of a submitted job
HpcInit ==
    /\ hpc_impl \in {"hpc_runner_node", "wait_for_job"}
    /\ hpc_pc = IF hpc_impl = "hpc_runner_node" THEN "entry" ELSE "poll"
    /\ hpc_max_loop \in 1..MaxLoopCeil
    /\ hpc_current_attempt = 0
    /\ last_error_msg = ""
    /\ slurm_prompt = {}
    /\ elapsed_time = 0
    /\ status_checks = 0
    /\ hpc_status = None
    /\ hpc_logs \in RunOutcomes
    /\ hpc_error_logs = check_foam_errors(hpc_logs)
    /\ hpc_job_id = IF hpc_impl = "hpc_runner_node" THEN None ELSE "job"

\* hpc_runner_node, step 1: remove_files(case_dir, prefix="log") and the
\* Allrun.out / Allrun.err files
hpc_cleanup ==
    /\ UNCHANGED nonHpcVars
    /\ hpc_pc = "entry"
    /\ hpc_logs' = remove_files(hpc_logs)
    /\ hpc_pc' = "submit"
    /\ UNCHANGED <<hpc_impl, hpc_max_loop, hpc_current_attempt, last_error_msg,
                   slurm_prompt, elapsed_time, status_checks, hpc_status,
                   hpc_error_logs, hpc_job_id>>

\* the submission loop with one attempt more than the ceiling
MoreAttemptsInclusive(attempt, ceiling) == attempt <= ceiling
\* "current_attempt < max_loop", the test of the while and of the retry branch
MoreAttempts(attempt, ceiling) == attempt < ceiling

\* the polling loop with one check more than the time allows
KeepPollingInclusive(elapsed) == elapsed <= max_wait_time
\* "while elapsed_time < max_wait_time"
KeepPolling(elapsed) == elapsed < max_wait_time

\* one turn of "while current_attempt < max_loop": the script is created
\* (attempt 1) or regenerated from the previous one, then submitted
HpcSubmit ==
    /\ UNCHANGED nonHpcVars
    /\ hpc_pc = "submit"
    /\ MoreAttempts(hpc_current_attempt, hpc_max_loop)
    /\ hpc_current_attempt' = hpc_current_attempt + 1
    /\ \E read_ok \in BOOLEAN, success \in BOOLEAN :
        LET previous_script_content == IF read_ok THEN "script" ELSE ""
        IN /\ slurm_prompt' =
                IF hpc_current_attempt' = 1 THEN {}
                ELSE IF last_error_msg # "" /\ previous_script_content # ""
                     THEN {last_error_msg, previous_script_content}
                     ELSE {}
           /\ IF success
              THEN /\ hpc_pc' = "poll"
                   /\ hpc_job_id' = "job"
                   /\ UNCHANGED <<last_error_msg, hpc_error_logs>>
              ELSE /\ last_error_msg' = "Failed to submit job"
                   /\ IF MoreAttempts(hpc_current_attempt', hpc_max_loop)
                      THEN /\ hpc_pc' = "submit"
                           /\ UNCHANGED <<hpc_error_logs, hpc_job_id>>
                      ELSE /\ hpc_pc' = "returned"
                           /\ hpc_error_logs' = <<SubmitError>>
                           /\ hpc_job_id' = None
    /\ UNCHANGED <<hpc_impl, hpc_max_loop, elapsed_time, status_checks, hpc_status,
                   hpc_logs>>

\* one turn of "while elapsed_time < max_wait_time", or the exit of the loop
\* when the time is up
HpcPoll ==
    /\ UNCHANGED nonHpcVars
    /\ hpc_pc = "poll"
    /\ IF KeepPolling(elapsed_time)
       THEN \E ok \in BOOLEAN,
               status \in {"PENDING", "RUNNING", "COMPLETED", "FAILED", "CANCELLED",
                           "TIMEOUT"} :
            /\ status_checks' = status_checks + 1
            /\ IF ~ok
               THEN /\ hpc_status' = IF hpc_impl = "wait_for_job" THEN "UNKNOWN" ELSE None
                    /\ hpc_pc' = "returned"
                    /\ hpc_error_logs' =
                         IF hpc_impl = "wait_for_job" THEN hpc_error_logs
                         ELSE <<StatusError>>
                    /\ UNCHANGED elapsed_time
               ELSE /\ hpc_status' = status
                    /\ UNCHANGED hpc_error_logs
                    /\ IF status \in {"COMPLETED", "FAILED", "CANCELLED", "TIMEOUT"}
                       THEN /\ hpc_pc' = IF hpc_impl = "wait_for_job" THEN "returned"
                                         ELSE "parse"
                            /\ UNCHANGED elapsed_time
                       ELSE /\ elapsed_time' = elapsed_time + wait_interval
                            /\ UNCHANGED hpc_pc
       ELSE /\ hpc_pc' = IF hpc_impl = "wait_for_job" THEN "returned" ELSE "parse"
            /\ UNCHANGED <<elapsed_time, status_checks, hpc_status, hpc_error_logs>>
    /\ UNCHANGED <<hpc_impl, hpc_max_loop, hpc_current_attempt, last_error_msg,
                   slurm_prompt, hpc_logs, hpc_job_id>>

\* error_logs = check_foam_errors(case_dir) over the logs the job has written
HpcParse ==
    /\ UNCHANGED nonHpcVars
    /\ hpc_pc = "parse"
    /\ \E produced \in RunOutcomes :
        /\ hpc_logs' = [f \in LogNames |-> IF produced[f] # NoLog THEN produced[f]
                                           ELSE hpc_logs[f]]
        /\ hpc_error_logs' = check_foam_errors(hpc_logs')
    /\ hpc_pc' = "returned"
    /\ UNCHANGED <<hpc_impl, hpc_max_loop, hpc_current_attempt, last_error_msg,
                   slurm_prompt, elapsed_time, status_checks, hpc_status, hpc_job_id>>

HpcNext ==
    \/ hpc_cleanup
    \/ HpcSubmit
    \/ HpcPoll
    \/ HpcParse

\* ------------------------------------------------------------------------
\* The completion service (utils.LLMService)
\* ------------------------------------------------------------------------
LlmIdle ==
    /\ llm_pc = "idle"
    /\ llm_max_retries = 0
    /\ llm_retry_count = 0
    /\ llm_requests = 0
    /\ llm_delay = 0

LlmInit ==
    /\ llm_pc = "calling"
    /\ llm_max_retries \in 0..MaxRetries
    /\ llm_retry_count = 0
    /\ llm_requests = 0
    /\ llm_delay = 0

\* _handle_throttling_retry that always goes on
handle_throttling_retry_NoCap(retry_count, max_retries) ==
    [give_up |-> FALSE, retry_count |-> retry_count + 1, delay |-> 1]
\* _handle_throttling_retry: None once retry_count + 1 exceeds max_retries,
\* else the new retry_count after a sleep of min(60, 2^(retry_count-1)) seconds
\* plus a jitter of at most a tenth of it
handle_throttling_retry(retry_count, max_retries) ==
    LET count == retry_count + 1
        doubled == 2 ^ (count - 1)
    IN IF count > max_retries
       THEN [give_up |-> TRUE, retry_count |-> count, delay |-> 0]
       ELSE [give_up |-> FALSE, retry_count |-> count,
             delay |-> IF doubled < 60 THEN doubled ELSE 60]

\* one turn of "while True" of LLMService.invoke
invoke ==
    /\ UNCHANGED nonLlmVars
    /\ llm_pc = "calling"
    /\ llm_requests' = llm_requests + 1
    /\ \E outcome \in {"response", "throttled", "error"} :
        CASE outcome = "response" ->
                /\ llm_pc' = "returned"
                /\ UNCHANGED <<llm_retry_count, llm_delay>>
          [] outcome = "error" ->
                /\ llm_pc' = "raised_other"
                /\ UNCHANGED <<llm_retry_count, llm_delay>>
          [] outcome = "throttled" ->
                LET retry == handle_throttling_retry(llm_retry_count, llm_max_retries)
                IN /\ llm_pc' = IF retry.give_up THEN "raised" ELSE "calling"
                   /\ llm_retry_count' = IF retry.give_up THEN llm_retry_count
                                         ELSE retry.retry_count
                   /\ llm_delay' = IF retry.give_up THEN llm_delay ELSE retry.delay
    /\ UNCHANGED llm_max_retries

Init ==
    /\ PipelineInit
    /\ RunIdle
    /\ RewriteIdle
    /\ MeshIdle
    /\ RetrieveIdle
    /\ ReviewIdle
    /\ HpcIdle
    /\ LlmIdle
Next == PipelineNext
Spec == Init /\ [][Next]_vars

InitRun ==
    /\ PipelineIdle
    /\ RunInit
    /\ RewriteIdle
    /\ MeshIdle
    /\ RetrieveIdle
    /\ ReviewIdle
    /\ HpcIdle
    /\ LlmIdle
SpecRun == InitRun /\ [][RunNext]_vars

InitRewrite ==
    /\ PipelineIdle
    /\ RunIdle
    /\ RewriteInit
    /\ MeshIdle
    /\ RetrieveIdle
    /\ ReviewIdle
    /\ HpcIdle
    /\ LlmIdle
SpecRewrite == InitRewrite /\ [][RewriteNext]_vars

InitMesh ==
    /\ PipelineIdle
    /\ RunIdle
    /\ RewriteIdle
    /\ MeshInit
    /\ RetrieveIdle
    /\ ReviewIdle
    /\ HpcIdle
    /\ LlmIdle
SpecMesh == InitMesh /\ [][MeshNext]_vars

InitRetrieve ==
    /\ PipelineIdle
    /\ RunIdle
    /\ RewriteIdle
    /\ MeshIdle
    /\ RetrieveInit
    /\ ReviewIdle
    /\ HpcIdle
    /\ LlmIdle
SpecRetrieve == InitRetrieve /\ [][RetrieveNext]_vars

InitReview ==
    /\ PipelineIdle
    /\ RunIdle
    /\ RewriteIdle
    /\ MeshIdle
    /\ RetrieveIdle
    /\ ReviewInit
    /\ HpcIdle
    /\ LlmIdle
SpecReview == InitReview /\ [][ReviewNext]_vars

InitHpc ==
    /\ PipelineIdle
    /\ RunIdle
    /\ RewriteIdle
    /\ MeshIdle
    /\ RetrieveIdle
    /\ ReviewIdle
    /\ HpcInit
    /\ LlmIdle
SpecHpc == InitHpc /\ [][HpcNext]_vars

InitLlm ==
    /\ PipelineIdle
    /\ RunIdle
    /\ RewriteIdle
    /\ MeshIdle
    /\ RetrieveIdle
    /\ ReviewIdle
    /\ HpcIdle
    /\ LlmInit
SpecLlm == InitLlm /\ [][invoke]_vars

\* every tool and model call of the loop returns
FairSpecMesh == SpecMesh /\ WF_vars(MeshNext)

\* LangGraph runs every scheduled node to completion
FairSpec == Spec /\ WF_vars(Next)

(***************************************************************************)
(* Properties of the execute / review / repair loop                        *)
(***************************************************************************)

\* C1: in every reachable pipeline state the loop counter loop_count is at
\* most the configured ceiling max_loop.
C1_LoopCountWithinCeiling == loop_count <= max_loop

\* Position of a stage inside one execute/review/repair iteration
StageRank(stage) ==
    CASE stage = "architect" -> 11
      [] stage = "route_after_architect" -> 10
      [] stage = "meshing" -> 9
      [] stage = "route_after_reviewer" -> 8
      [] stage = "input_writer" -> 7
      [] stage = "route_after_input_writer" -> 6
      [] stage \in {"local_runner", "hpc_runner"} -> 5
      [] stage = "route_after_runner" -> 4
      [] stage = "reviewer" -> 3
      [] stage = "visualization" -> 2
      [] stage \in {"END", "EXCEPTION"} -> 1
      [] OTHER -> 0
Variant == (max_loop + 2 - loop_count) * 16 + StageRank(pc)

\* C2: whatever the execution outcomes, the pipeline reaches its terminal
\* state after a bounded number of execute/review/repair iterations: every
\* step strictly decreases a natural-number variant, the transcript holds at
\* most max_loop review rounds, and the run eventually exits.
C2_BoundedIterations ==
    /\ [][/\ Variant' < Variant
          /\ Variant' >= 0
          /\ Len(history_text') <= 3 * max_loop]_vars
    /\ <>(pc = "EXIT")
C2_Witness ==
    /\ pc = "EXIT"
    /\ Len(history_text) = 3 * max_loop
    /\ error_logs # <<>>
    /\ max_loop > 1

\* C3: an execution that yields zero error records is followed by
\* visualization or END, and from there neither the reviewer nor the
\* input writer runs again.
C3_CleanRunEnds ==
    [][/\ (pc = "route_after_runner" /\ error_logs = <<>>)
            => pc' \in {"visualization", "END"}
       /\ pc \in {"visualization", "END", "EXIT"}
            => pc' \in {"END", "EXIT"}]_vars
C3_Witness ==
    /\ pc = "END"
    /\ error_logs = <<>>
    /\ loop_count >= 1
    /\ Len(history_text) > 0

\* C4: an execution, local or batch, that yields at least one error record
\* is followed by the reviewer.
C4_ErrorsGoToReview ==
    [][(pc = "route_after_runner" /\ error_logs # <<>>) => pc' = "reviewer"]_vars
C4_Witness ==
    /\ pc = "reviewer"
    /\ error_logs = <<SubmitError>>
    /\ job_id = None

\* C5: a pipeline that stops at the ceiling with errors remaining keeps the
\* last error set and the whole transcript and is never presented as
\* successful.
C5_NeverPresentedAsSuccess ==
    (pc = "EXIT" /\ error_logs # <<>> /\ loop_count >= max_loop)
        => /\ history_text # <<>>
           /\ report # "Workflow completed successfully!"

(***************************************************************************)
(* Properties of a single run request                                      *)
(***************************************************************************)

\* C6: a run is reported with status completed / success exactly when the
\* error list parsed for that run is empty, and with status failed whenever
\* that list is not empty.
C6_SuccessIffNoErrors ==
    /\ run_stage = "returned" =>
         /\ run_status \in {"completed", "success", "failed"}
         /\ (run_status \in {"completed", "success"}) <=> (run_errors = <<>>)
         /\ (run_errors # <<>>) => (run_status = "failed")
    /\ run_stage # "returned" => run_status = None
C6_Witness ==
    /\ run_stage = "returned"
    /\ run_impl = "run_simulation_local"
    /\ Len(run_errors) = 1
    /\ run_logs["log.simpleFoam"] = FailedLog
    /\ run_status = "failed"

(***************************************************************************)
(* Properties of a repair iteration                                        *)
(***************************************************************************)

\* C7: every file of the case directory that the rewrite response of a
\* repair iteration does not name still exists with the same content after
\* that iteration; only files the response names are written.
C7_UnnamedFilesUntouched ==
    [][rw_stage' \in {"returned", "raised"} =>
         \A p \in Paths :
            p \notin NamedPaths(rw_response') => rw_case'.disk[p] = rw_case.disk[p]]_vars
C7_Witness ==
    /\ rw_stage = "returned"
    /\ Len(rw_response) = MaxRewriteLen
    /\ rw_case.disk[PathOf(ControlDict)] = "v2"
    /\ rw_case.disk[PathOf(FieldU)] = "v1"
    /\ PathOf(FieldU) \notin NamedPaths(rw_response)

(***************************************************************************)
(* Properties of the gmsh mesh loop                                        *)
(***************************************************************************)

\* C8: the mesh loop returns a non-null mesh artifact only if the set of
\* boundary names found in the converted mesh equals the set of expected
\* boundary names, whatever the mesh-quality check said.
C8_AcceptOnlyOnEqualBoundaries ==
    (mesh_pc = "returned" /\ gmsh_result # None)
        => /\ found_boundaries # NotChecked
           /\ Range(found_boundaries) = Range(expected_boundaries)

\* C9: in the quality step a parsed count N > 0 of failed checks sends the
\* loop back to GENERATE (below the ceiling), and a parsed count N = 0 leads
\* to ACCEPT.
C9_QualityCountDecides ==
    [][(mesh_pc = "CHECK_QUALITY" /\ checkmesh_output'.matched) =>
         /\ (checkmesh_output'.count > 0 /\ gmsh_python_current_loop < mesh_max_loop)
               => mesh_pc' = "GENERATE"
         /\ (checkmesh_output'.count = 0)
               => (mesh_pc' = "returned" /\ gmsh_result' # None)]_vars

\* steps left in the mesh loop
MeshStageRank(stage) ==
    CASE stage = "RUN" -> 5
      [] stage = "CONVERT" -> 4
      [] stage = "CHECK_BOUNDARIES" -> 3
      [] stage = "CHECK_QUALITY" -> 2
      [] stage = "GENERATE" -> 1
      [] OTHER -> 0
MeshVariant ==
    IF mesh_pc = "returned" THEN 0
    ELSE (mesh_max_loop + 1 - gmsh_python_current_loop) * 6 + MeshStageRank(mesh_pc)

Survivors == DomainMatched(rt_candidates, rt_case_domain)

\* C12: whenever retrieval has returned a selected reference, that reference's
\* domain equals the requested case domain, whatever the scores of the hits.
C12_SelectedHasRequestedDomain ==
    (rt_stage = "returned" /\ rt_selected # <<>>)
        => rt_selected[1].case_domain = rt_case_domain

\* C13: when no retrieved candidate has the requested domain, retrieval
\* returns the no-reference result (every reference text empty) and selects
\* no candidate.
C13_NoSurvivorNoReference ==
    (rt_stage = "returned" /\ Survivors = <<>>)
        => (rt_result = NoReference /\ rt_selected = <<>>)

\* C14: when some candidate passes the domain filter, the selected reference
\* is a survivor, it matches the solver exactly if any survivor does, and no
\* survivor with the same solver-match status has a strictly smaller distance.
C14_SelectedIsFirstSurvivor ==
    (rt_stage = "returned" /\ Survivors # <<>>)
        => /\ rt_selected # <<>>
           /\ rt_selected[1] \in Range(Survivors)
           /\ \A c \in Range(Survivors) :
                /\ solver_match(c, rt_case_solver)
                       <= solver_match(rt_selected[1], rt_case_solver)
                /\ solver_match(c, rt_case_solver)
                       = solver_match(rt_selected[1], rt_case_solver)
                   => score_val(rt_selected[1]) <= score_val(c)

\* C15: whenever the reviewer has completed, the next stage is the repair step
\* (the input writer in rewrite mode), whatever the loop counter holds.
C15_ReviewThenRepair ==
    [][pc = "route_after_reviewer"
          => (pc' = "input_writer" /\ input_writer_mode' = "rewrite")]_vars

\* what the review leaves alone in either implementation
ReviewTouchesNoFile ==
    /\ rv_case' = rv_case
    /\ rv_error_logs' = rv_error_logs

\* C16 as stated: the review modifies no file of the case directory, and apart
\* from the analysis text and the transcript nothing of the state changes.
C16_OnlyAnalysisAndTranscript ==
    [][rv_stage = "request"
          => /\ ReviewTouchesNoFile
             /\ rv_loop_count' = rv_loop_count
             /\ rv_input_writer_mode' = rv_input_writer_mode]_vars

\* C16: the review modifies no file of the case directory and leaves the error
\* list alone; it sets the analysis text and extends the transcript, and the
\* graph node that has reviewed also adds one to loop_count and sets
\* input_writer_mode to "rewrite".
C16_ReviewTouchesNoFile ==
    [][rv_stage = "request"
          => /\ ReviewTouchesNoFile
             /\ IsPrefix(rv_history_text, rv_history_text')
             /\ rv_impl = "review_error_logs"
                   => /\ rv_loop_count' = rv_loop_count
                      /\ rv_input_writer_mode' = rv_input_writer_mode
                      /\ Len(rv_history_text') = Len(rv_history_text) + 4
             /\ (rv_impl = "reviewer_node" /\ rv_error_logs # <<>>)
                   => /\ rv_loop_count' = rv_loop_count + 1
                      /\ rv_input_writer_mode' = "rewrite"
                      /\ Len(rv_history_text') = Len(rv_history_text) + 3
             /\ (rv_impl = "reviewer_node" /\ rv_error_logs = <<>>)
                   => UNCHANGED <<rv_history_text, rv_review_analysis, rv_loop_count,
                                  rv_input_writer_mode>>]_vars
C16_Witness ==
    /\ rv_stage = "returned"
    /\ rv_impl = "reviewer_node"
    /\ rv_review_analysis # ""
    /\ Len(rv_history_text) = 6
    /\ rv_loop_count = 2
    /\ rv_case.disk[PathOf(ControlDict)] = InitialContent

\* C17: whenever the repair step (the input writer in rewrite mode) has
\* completed, the error list is empty.
C17_RepairClearsErrors ==
    (pc = "route_after_input_writer" /\ input_writer_mode = "rewrite")
        => error_logs = <<>>

\* the records of the returned error list that belong to one log file
RecordsOf(file) == {i \in 1..Len(run_errors) : run_errors[i].file = file}
\* the call has parsed the logs of the run
LogsParsed == run_stage = "returned" /\ run_allrun

\* C18: a log that holds the line with the ERROR: marker yields exactly one
\* record for that log, and the record's content is the text from the first
\* marker to the end of the log.
C18_OneRecordPerMarkedLog ==
    LogsParsed =>
        \A file \in LogNames :
            (Readable(run_logs[file]) /\ ErrorLine \in Range(run_logs[file]))
                => /\ Cardinality(RecordsOf(file)) = 1
                   /\ \A i \in RecordsOf(file) :
                        \E k \in 1..Len(run_logs[file]) :
                            /\ run_logs[file][k] = ErrorLine
                            /\ \A j \in 1..(k - 1) : run_logs[file][j] # ErrorLine
                            /\ run_errors[i].error_content
                                  = SubSeq(run_logs[file], k, Len(run_logs[file]))
C18_Witness ==
    /\ LogsParsed
    /\ run_logs["log.blockMesh"] = OkLog
    /\ run_logs["log.simpleFoam"] = FailedTwiceLog
    /\ Len(run_errors) = 1
    /\ run_errors[1].error_content = <<ErrorLine, TextLine, ErrorLine>>

\* C19: when no log holds the ERROR: marker, every log without the End line
\* yields a record whose content is the last TailLines lines of that log.
C19_TailOfEveryLogWithoutEnd ==
    (LogsParsed /\ \A file \in LogNames : ErrorLine \notin Range(run_logs[file]))
        => \A file \in LogNames :
            (Readable(run_logs[file]) /\ EndLine \notin Range(run_logs[file]))
                => \E i \in RecordsOf(file) :
                     \E n \in 0..TailLines :
                        /\ n = Len(run_logs[file]) \/ n = TailLines
                        /\ n <= Len(run_logs[file])
                        /\ run_errors[i].error_content
                              = SubSeq(run_logs[file], Len(run_logs[file]) - n + 1,
                                       Len(run_logs[file]))

\* C20: when the run has hit the time limit, the file of the captured standard
\* output and the file of the captured standard error both hold the timeout
\* marker.
C20_TimeoutMarkedInBothFiles ==
    (run_stage = "returned" /\ run_timed_out)
        => /\ TimeoutMessage \in Range(run_out_file)
           /\ TimeoutMessage \in Range(run_err_file)
C20_Witness ==
    /\ run_stage = "returned"
    /\ run_timed_out
    /\ run_out_file = <<TimeoutMessage, "output">>
    /\ run_err_file = <<TimeoutMessage>>
    /\ run_logs["log.simpleFoam"] = CrashedLog

C22_SubmissionBounded ==
    /\ hpc_current_attempt <= hpc_max_loop
    /\ (hpc_impl = "hpc_runner_node" /\ hpc_current_attempt = hpc_max_loop
            /\ hpc_job_id = None)
        => (hpc_pc = "returned" /\ hpc_error_logs = <<SubmitError>>
            /\ status_checks = 0)
C22_Witness ==
    /\ hpc_pc = "returned"
    /\ hpc_max_loop >= 2
    /\ hpc_current_attempt = hpc_max_loop
    /\ hpc_error_logs = <<SubmitError>>

\* C23: the script of every attempt after the first was generated from a
\* prompt that carries both the error message of the failed submission and
\* the content of the previous script.
C23_RegeneratedWithBoth ==
    (hpc_current_attempt >= 2)
        => slurm_prompt = {"Failed to submit job", "script"}

\* C24: a status check that answers a terminal state ends the polling, the
\* polling never makes more than max_wait_time / wait_interval checks, one
\* per interval slept, and this whatever config.max_loop is.
C24_PollingBounded ==
    /\ status_checks <= max_wait_time \div wait_interval
    /\ hpc_pc = "poll"
        => /\ hpc_status \notin {"COMPLETED", "FAILED", "CANCELLED", "TIMEOUT"}
           /\ elapsed_time = status_checks * wait_interval
C24_Witness ==
    /\ hpc_pc = "parse"
    /\ hpc_max_loop = 1
    /\ status_checks = max_wait_time \div wait_interval
    /\ hpc_status = "RUNNING"

(***************************************************************************)
(* Properties of the completion service                                    *)
(***************************************************************************)
\* C25: a call that keeps being rate limited is retried at most max_retries
\* times, so it sends at most max_retries + 1 requests, and when the request
\* after the last retry is rate limited too the call raises.
C25_RetriesBounded ==
    /\ llm_retry_count <= llm_max_retries
    /\ llm_requests <= llm_max_retries + 1
    /\ (llm_pc = "calling") => llm_requests = llm_retry_count
    /\ (llm_pc = "raised") => llm_requests = llm_max_retries + 1
C25_Witness ==
    /\ llm_pc = "raised"
    /\ llm_max_retries >= 2
    /\ llm_retry_count = llm_max_retries
    /\ llm_requests = llm_max_retries + 1

(***************************************************************************)
(* Further properties of the loop, of a run request and of the rewrite     *)
(***************************************************************************)
\* C26: when a repair iteration is complete (run, review and rewrite done),
\* loop_count equals the number of iterations made so far, which is the
\* number of reviews in the transcript.
C26_OnePerIteration ==
    (pc = "route_after_input_writer" /\ input_writer_mode = "rewrite")
        => loop_count = Len(history_text) \div Len(ReviewerAttempt(<<>>, <<>>, ""))

\* C27: every step of a job leaves the review transcript as it is or
\* extends it at the end: the transcript before the step is a prefix of the
\* transcript after it.
C27_TranscriptAppendOnly ==
    [][/\ IsPrefix(history_text, history_text')
       /\ IsPrefix(rv_history_text, rv_history_text')]_vars
C27_Witness ==
    /\ pc = "route_after_reviewer"
    /\ Len(history_text) = 2 * Len(ReviewerAttempt(<<>>, <<>>, ""))
    /\ history_text[1].kind = "Attempt+Error_Logs"
    /\ history_text[4].kind = "Attempt+Error_Logs"

\* C28: the error list a run call returns is the list parsed from the log
\* files the script of this very call has written (or the single record of
\* the missing Allrun script); a log left by an earlier run contributes no
\* record.
C28_ErrorsOfThisCallOnly ==
    (run_stage = "returned")
        => run_errors = run_allrun_and_collect_errors(run_allrun, run_written)
C28_Witness ==
    /\ run_stage = "returned"
    /\ run_allrun
    /\ run_written = [NoLogs EXCEPT !["log.simpleFoam"] = OkLog]
    /\ run_logs = run_written
    /\ run_errors = <<>>

\* C29: no step of the writer or of the pipeline removes a (folder, file)
\* pair from the directory map: the files listed under each folder before
\* the step are still listed under it after the step.
C29_DirStructureKeepsEntries ==
    [][\A folder \in FolderNames :
          /\ Range(dir_structure[folder]) \subseteq Range(dir_structure'[folder])
          /\ Range(rw_case.dir_structure[folder])
                \subseteq Range(rw_case'.dir_structure[folder])]_vars
C29_Witness ==
    /\ rw_stage = "returned"
    /\ Range(rw_case.dir_structure["system"]) = {"fvSchemes", "controlDict"}
    /\ rw_case.disk[PathOf(ControlDict)] = "v2"
    /\ Range(rw_case.dir_structure["constant"]) = {"transportProperties"}
    /\ Range(rw_case.dir_structure["0"]) = {"U"}

\* C30: a run of the geometry script that fails below the ceiling (non-zero
\* exit, or no mesh file) sends the loop back to GENERATE with no mesh
\* returned, and the stderr it captured is put into the correction prompt.
C30_RunFailureFeedsStderr ==
    [][(mesh_pc = "RUN" /\ mesh_pc' # "CONVERT"
            /\ gmsh_python_current_loop < mesh_max_loop)
        => /\ mesh_pc' = "GENERATE"
           /\ gmsh_result' = None
           /\ stderr_output' # ""
                => correction_prompt' =
                      {[tag |-> "gmsh_python_error_output",
                        value |-> <<stderr_output'>>]}]_vars

C32_WrittenInPriorityOrder ==
    [][rw_stage = "write" =>
         LET files == rw_case'.foamfiles
             rank(f) == CASE f.folder_name = "system" -> 0
                          [] f.folder_name = "constant" -> 1
                          [] f.folder_name = "0" -> 2
                          [] OTHER -> 3
         IN \A i \in 1..Len(files), j \in 1..Len(files) :
                i < j => rank(files[i]) <= rank(files[j])]_vars
C32_Witness ==
    /\ rw_stage = "request"
    /\ rw_response = <<>>
    /\ [i \in 1..Len(rw_case.foamfiles) |-> KeyOf(rw_case.foamfiles[i])]
          = <<FvSchemes, ControlDict, FieldU, AllrunEntry>>

(***************************************************************************)
(* Further properties of the orchestration                                 *)
(***************************************************************************)
\* C33: the visualization node runs only with an empty error list: a repair
\* loop that ends with errors remaining does not reach visualization.
C33_VisualizationOnlyAfterCleanRun ==
    pc = "visualization" => error_logs = <<>>

\* C34: once meshing_node has returned an accepted mesh, no later step (write,
\* execute, review, repair) changes mesh_info or the mesh files on disk.
C34_MeshFrozenAfterAccept ==
    [][(mesh_info # None /\ pc # "meshing")
         => /\ mesh_info' = mesh_info
            /\ disk'[PathOf(PolyMeshBoundary)] = disk[PathOf(PolyMeshBoundary)]]_vars

(***************************************************************************)
(* Further properties of the SLURM runner                                  *)
(***************************************************************************)
\* C35: the SLURM runner returns an empty error list only for a job whose
\* last status was COMPLETED; a job that ended FAILED, CANCELLED or TIMEOUT,
\* or whose polling ran out of time, returns at least one error record.
C35_ErrorFreeOnlyIfCompleted ==
    (hpc_impl = "hpc_runner_node" /\ hpc_pc = "returned" /\ hpc_error_logs = <<>>)
        => hpc_status = "COMPLETED"

(***************************************************************************)
(* Further properties of a single run request                              *)
(***************************************************************************)
\* C36: a run whose script was killed at the time limit returns at least one
\* error record, whatever log files exist then, and is reported as failed.
C36_TimeoutYieldsError ==
    (run_stage = "returned" /\ run_timed_out)
        => (run_errors # <<>> /\ run_status = "failed")

(***************************************************************************)
(* Further properties of the outcome of the gmsh mesh loop                 *)
(***************************************************************************)
\* C37: the mesh loop returns an accepted mesh only when the boundary file
\* was read and matched the expected names and checkMesh ran and passed; no
\* path accepts a mesh without CHECK_BOUNDARIES or without CHECK_QUALITY.
C37_AcceptOnlyAfterBothChecks ==
    (mesh_pc = "returned" /\ gmsh_result # None)
        => /\ found_boundaries # NotChecked
           /\ ~BoundaryMismatch(found_boundaries, expected_boundaries)
           /\ checkmesh_output # NoCheckMesh
           /\ checkmesh_output.raised = ""

C39_WholeBudgetIsUsed ==
    (pc = "EXIT" /\ error_logs # <<>> /\ history_text # <<>> /\ max_loop >= 1)
        => Len(history_text) \div Len(ReviewerAttempt(<<>>, <<>>, "")) = max_loop

(***************************************************************************)
(* Further properties of the review transcript                             *)
(***************************************************************************)
\* C40: the attempt labels of the review transcript are consecutive: the
\* k-th review of a job is labelled "Attempt k", with no number repeated and
\* none skipped.
C40_AttemptLabelsConsecutive ==
    \A h \in {history_text, rv_history_text} :
        LET opening == {i \in 1..Len(h) : h[i].kind \in {"Attempt+Error_Logs", "Attempt"}}
        IN \A i \in opening :
              h[i].attempt = Cardinality({j \in opening : j <= i})

====
